---- MODULE Spec2Model ----
(***************************************************************************)
(* The credit ledger of the chemical naming service (backend/database.py,  *)
(* class FirestoreService) and the hybrid orchestrator that bills a batch  *)
(* (backend/main.py, get_molecule_names_with_credits).                      *)
(*                                                                         *)
(* One account document lives in the shared store (Firestore).  Every      *)
(* server process keeps its own in-memory user cache (_user_cache) and     *)
(* runs one ledger call at a time: the Firestore client is synchronous, so *)
(* a call never yields to the event loop of its own process.  Calls of     *)
(* different processes interleave at every access to the store.             *)
(*                                                                         *)
(* The slow resolver (true_batch_stout_translate over                        *)
(* cached_stout_translate) runs on the threads of one pool and shares the  *)
(* result cache of functools.lru_cache.                                     *)
(*                                                                         *)
(* Units.  Basic credits are integers.  Premium credits are fractional in  *)
(* the code; here they are counted in thousandths of a credit, and compute *)
(* time in tenths of a second.                                              *)
(***************************************************************************)
EXTENDS Integers, Sequences, FiniteSets, TLC

VARIABLES store, now, cache, proc, batch, stout_cache, worker,
          login, limiter, loader

vars == <<store, now, cache, proc, batch, stout_cache, worker,
          login, limiter, loader>>

---------------------------------------------------------------------------
(* Bounds of the model *)

\* how many times the calendar month may change
MaxTicks == 1
\* ledger calls one process may issue when two processes run
MaxCalls == 2
\* ledger calls the process may issue when it runs alone
MaxSeqCalls == 3
\* the account starts with at most this many basic credits left
BasicSlack == 1
\* the account starts with at most this many premium debit quanta left
PremiumSlack == 1
\* basic debits are of 1..MaxBasicDebit credits
MaxBasicDebit == 2
\* a batch holds at most this many identifiers
MaxItems == 3
\* entries the result cache holds at most (maxsize; 1024 in the code)
CacheSize == 2
\* calls one pool thread may run when two threads run
MaxJobs == 2
\* login requests the server answers
MaxLogins == 4
\* calls of start_loading, all callers together
MaxStarts == 3
\* calls of get_status and of wait_for_load
MaxObservations == 2
\* calls of the rate limiter
MaxRequests == 4
\* the last reading of the clock of the rate limiter, in ticks
MaxClock == 4
\* ticks the clock may advance between the two readings of one call
MaxSkew == 1
\* window_seconds in ticks (60 seconds in the code)
Window == 2
\* RATE_LIMIT_AUTH_REQUESTS_PER_MINUTE (5 by default in the code)
AuthLimit == 1
\* RATE_LIMIT_REQUESTS_PER_MINUTE (60 by default in the code)
ApiLimit == 2

---------------------------------------------------------------------------
(* Program constants *)

\* 1 premium credit = 10 seconds of compute time
SecondsPerCredit == 10

SUBSCRIPTION_PLANS ==
    [free    |-> [basic_credits_limit |-> 200,  premium_credits_limit |-> 35],
     pro     |-> [basic_credits_limit |-> 1000, premium_credits_limit |-> 750],
     premium |-> [basic_credits_limit |-> 2000, premium_credits_limit |-> 1500]]

PlanNames == DOMAIN SUBSCRIPTION_PLANS

\* a plan name that is not in SUBSCRIPTION_PLANS
UnknownPlan == "enterprise"

\* thousandths of a credit in a premium limit given in credits
PremiumUnits(credits) == credits * 1000

\* credits_needed = compute_seconds / 10, with the time given in tenths of a
\* second and the result in thousandths of a credit
credits_needed(compute_time) ==
    (compute_time * 1000) \div (10 * SecondsPerCredit)

\* the compute times (tenths of a second) a premium debit is asked for
ComputeTimes == {20, 50}

\* the server processes
Procs == {"p1", "p2"}

\* the process that runs alone in the sequential specifications
Solo == "p1"

---------------------------------------------------------------------------
(* Dates: only year and month matter to the ledger *)

StartDate == [year |-> 2025, month |-> 12]

NextMonth(d) ==
    IF d.month = 12 THEN [year |-> d.year + 1, month |-> 1]
    ELSE [year |-> d.year, month |-> d.month + 1]

\* the number of month changes from date a to date b
MonthsSince(a, b) == (b.year * 12 + b.month) - (a.year * 12 + a.month)

\* current_date.month != last_reset.month or current_date.year != last_reset.year
NewMonth(current_date, last_reset) ==
    current_date.month # last_reset.month \/ current_date.year # last_reset.year

---------------------------------------------------------------------------
(* The account document *)

Account(plan, bu, pu, anchor) ==
    [subscription_plan     |-> plan,
     basic_credits_used    |-> bu,
     basic_credits_limit   |-> SUBSCRIPTION_PLANS[plan].basic_credits_limit,
     premium_credits_used  |-> pu,
     premium_credits_limit |-> PremiumUnits(SUBSCRIPTION_PLANS[plan].premium_credits_limit),
     monthly_reset_date    |-> anchor]

\* the value of a local variable that holds no document
NoUser ==
    [subscription_plan |-> "", basic_credits_used |-> 0, basic_credits_limit |-> 0,
     premium_credits_used |-> 0, premium_credits_limit |-> 0,
     monthly_reset_date |-> [year |-> 0, month |-> 0]]

\* the smallest premium debit of the model
PremiumQuantum == credits_needed(20)

---------------------------------------------------------------------------
(* FirestoreService: the pure parts *)

\* get_user_by_id: the cached document when the cache holds one, else the
\* stored document, which is then cached; None (NoUser) when the store holds
\* no document for the account, and then nothing is cached
get_user_by_id(st, c) ==
    IF c # {}
    THEN [user |-> CHOOSE d \in c : TRUE, cache |-> c]
    ELSE IF st = NoUser
         THEN [user |-> NoUser, cache |-> c]
         ELSE [user |-> st, cache |-> {st}]

\* _invalidate_user_cache
invalidate_user_cache(c) == {}

\* the update of check_and_reset_monthly_credits
ResetMonthly(st, current_date) ==
    [st EXCEPT !.basic_credits_used = 0,
               !.premium_credits_used = 0,
               !.monthly_reset_date = current_date]

\* current_used + credits_to_use > credit_limit
BasicExceeded(user, credits_to_use) ==
    user.basic_credits_used + credits_to_use > user.basic_credits_limit

PremiumExceeded(user, compute_time) ==
    user.premium_credits_used + credits_needed(compute_time) > user.premium_credits_limit

\* firestore.Increment on basic_credits_used
IncrementBasic(st, credits_to_use) ==
    [st EXCEPT !.basic_credits_used = @ + credits_to_use]

IncrementPremium(st, compute_time) ==
    [st EXCEPT !.premium_credits_used = @ + credits_needed(compute_time)]

\* a tier update that also zeroes the used counters
SetPlanAndResetUsage(st, new_plan) ==
    [st EXCEPT !.subscription_plan = new_plan,
               !.basic_credits_limit = SUBSCRIPTION_PLANS[new_plan].basic_credits_limit,
               !.premium_credits_limit =
                   PremiumUnits(SUBSCRIPTION_PLANS[new_plan].premium_credits_limit),
               !.basic_credits_used = 0,
               !.premium_credits_used = 0]

\* the update of update_user_subscription
SetPlan(st, new_plan) ==
    [st EXCEPT !.subscription_plan = new_plan,
               !.basic_credits_limit = SUBSCRIPTION_PLANS[new_plan].basic_credits_limit,
               !.premium_credits_limit =
                   PremiumUnits(SUBSCRIPTION_PLANS[new_plan].premium_credits_limit)]

\* a reset that also puts the account back on the free plan
ResetUsageAndPlan(st) == Account("free", 0, 0, st.monthly_reset_date)

\* the update of reset_user_credits
ResetUsage(st) ==
    [st EXCEPT !.basic_credits_used = 0, !.premium_credits_used = 0]

\* the document of create_user: the free plan, nothing used, and
\* monthly_reset_date in the month of the creation
NewAccount(current_date) == Account("free", 0, 0, current_date)

\* check_credit_limits on what get_user_credit_usage reported (None reports
\* {} and every .get gives 0): 429 when neither currency has credits left
Admitted(usage) ==
    ~(/\ usage.basic_credits_limit - usage.basic_credits_used <= 0
      /\ usage.premium_credits_limit - usage.premium_credits_used <= 0)

---------------------------------------------------------------------------
(* FirestoreService: a whole call, as one process runs it without yielding *)

check_and_reset_monthly_credits(st, c, current_date) ==
    LET g == get_user_by_id(st, c) IN
    IF g.user = NoUser
    THEN [store |-> st, cache |-> g.cache, ret |-> FALSE]
    ELSE IF NewMonth(current_date, g.user.monthly_reset_date)
    THEN [store |-> ResetMonthly(st, current_date), cache |-> g.cache, ret |-> TRUE]
    ELSE [store |-> st, cache |-> g.cache, ret |-> FALSE]

consume_basic_credits(st, c, current_date, credits_to_use) ==
    LET r == check_and_reset_monthly_credits(st, c, current_date)
        g == get_user_by_id(r.store, r.cache)
    IN  IF g.user = NoUser \/ BasicExceeded(g.user, credits_to_use)
        THEN [store |-> r.store, cache |-> g.cache, ret |-> FALSE]
        ELSE [store |-> IncrementBasic(r.store, credits_to_use),
              cache |-> invalidate_user_cache(g.cache), ret |-> TRUE]

consume_premium_credits(st, c, current_date, compute_seconds) ==
    LET r == check_and_reset_monthly_credits(st, c, current_date)
        g == get_user_by_id(r.store, r.cache)
    IN  IF g.user = NoUser \/ PremiumExceeded(g.user, compute_seconds)
        THEN [store |-> r.store, cache |-> g.cache, ret |-> FALSE]
        ELSE [store |-> IncrementPremium(r.store, compute_seconds),
              cache |-> invalidate_user_cache(g.cache), ret |-> TRUE]

---------------------------------------------------------------------------
(* The orchestrator: get_molecule_names_with_credits *)

\* An entry of a result list: a name found for an identifier, or a status.
\* Identifiers are the positions 1..n of the request's list.
Res(kind, item) == [kind |-> kind, item |-> item]

PubchemName(smiles) == Res("pubchem name", smiles)
StoutName(smiles) == Res("stout name", smiles)
None == Res("None", 0)
NoNameFound == Res("No name found", 0)
CreditLimitExceeded == Res("Credit limit exceeded", 0)
ProcessingFailed == Res("Processing failed", 0)
UserNotFound == Res("User not found", 0)

\* the measured times (tenths of a second) of a slow-resolver call
SlowTimes == {20, 40, 60}

\* the measured times that divide evenly among n identifiers, so that the
\* per-identifier time is exact in tenths of a second
EvenTimes(n) == {t \in SlowTimes : n > 0 /\ t % n = 0}

\* a loop that sends every identifier to the fast debit
AlwaysNamed(pubchem_result) == TRUE

\* the test of line 264: the lookup returned a name
FastNamed(pubchem_result) == pubchem_result = "name"

\* a call of the slow resolver whatever stout_needed holds
AlwaysSlow(stout_needed) == TRUE

\* the test of line 283: if stout_needed
SlowNeeded(stout_needed) == stout_needed # <<>>

\* the j-th round of zip(stout_indices, stout_results, stout_needed) writes
\* at the position in the slow batch, not at the original index
zip_position(stout_indices, j) == j

\* idx of the j-th round of zip(stout_indices, stout_results, stout_needed)
zip_idx(stout_indices, j) == stout_indices[j]

\* the whole measured time charged to every identifier
whole_compute_time(compute_time, n) == compute_time

\* individual_compute_time = compute_time / len(stout_needed)
individual_compute_time(compute_time, n) == compute_time \div n

\* a total that adds one whole credit for every accepted identifier
one_credit(compute_seconds) == PremiumUnits(1)

\* credits_for_this_molecule = individual_compute_time / 10
credits_for_this_molecule(compute_seconds) == credits_needed(compute_seconds)

\* a rejection that marks every position not yet filled
RejectUnset(results, idx) ==
    [k \in DOMAIN results |->
        IF k = idx \/ results[k] = None THEN CreditLimitExceeded ELSE results[k]]

\* final_results[idx] = "Credit limit exceeded"
RejectSlow(results, idx) == [results EXCEPT ![idx] = CreditLimitExceeded]

\* a loop that writes the resolver's result whatever the debit returned
SlowResultUnbilled(results, idx, result, accepted) == [results EXCEPT ![idx] = result]

\* lines 297-301: the resolver's result when the premium debit returned True,
\* else "Credit limit exceeded"
SlowOutcome(results, idx, result, accepted) ==
    IF accepted THEN [results EXCEPT ![idx] = result] ELSE RejectSlow(results, idx)

\* lines 309-311: every entry still None becomes "No name found"
FillNone(results) ==
    [k \in DOMAIN results |-> IF results[k] = None THEN NoNameFound ELSE results[k]]

\* what cache.lookup_iupac_name does for one identifier: it returns a name,
\* returns None, or the import or the call raises (lines 158-167)
LocalOutcomes == {"name", "none", "raises"}

\* what the remote get_compounds does within wait_for: compounds with a
\* name, nothing usable, no answer within the timeout, an exception of the
\* transport, or ImportError from lazy_import_pubchempy (lines 171-190)
RemoteOutcomes == {"name", "empty", "timeout", "error", "import error"}

\* line 161 with the test left out: the local name is never taken
NeverLocalNamed(local) == FALSE

\* line 161, `if cached_name`
LocalNamed(local) == local = "name"

\* lines 179-190 without the two except clauses: what is not an answer
\* leaves the coroutine as an exception, which the gather collects
RemoteUncaught(remote) ==
    IF remote = "name" THEN "name"
    ELSE IF remote = "empty" THEN "None" ELSE "exception"

\* lines 179-190: the name of the first compound, and None for an empty
\* answer, for asyncio.TimeoutError and for any other Exception
RemoteResult(remote) == IF remote = "name" THEN "name" ELSE "None"

\* one pubchem_name_from_smiles coroutine that has not run yet
NoLookup ==
    [pc |-> "local", local |-> "unset", remote |-> "unset", result |-> "unset",
     local_calls |-> 0, remote_calls |-> 0]

\* an except clause that marks the whole batch, the billed items included
MarkAllFailed(results, stout_indices) ==
    [k \in DOMAIN results |-> ProcessingFailed]

\* lines 305-306: every item of stout_indices gets "Processing failed"
MarkFailed(results, stout_indices) ==
    [k \in DOMAIN results |->
        IF \E m \in 1..Len(stout_indices) : stout_indices[m] = k
        THEN ProcessingFailed ELSE results[k]]

\* the else of line 271 taken after every fast debit: a billed item is put
\* on the slow list as well
FallBackAlways(stout_indices, i, accepted) == Append(stout_indices, i)

\* lines 266-275: only an item whose fast debit was rejected falls back to
\* the slow list
FallBack(stout_indices, i, accepted) ==
    IF accepted THEN stout_indices ELSE Append(stout_indices, i)

\* the guard of line 245 with the test left out: no account is ever missing
NeverMissing(user) == FALSE

\* line 245, `if not user`: get_user_by_id gave None
UserMissing(user) == user = NoUser

\* lookups are the pubchem_name_from_smiles coroutines of the request;
\* pre and cur are the stored document and the date when the request
\* arrived; slow_calls lists the arguments of the calls of
\* true_batch_stout_translate; debits lists the calls of the two debits
NoBatch ==
    [pc |-> "idle", n |-> 0, pubchem_results |-> <<>>, i |-> 0,
     stout_indices |-> <<>>, stout_results |-> <<>>, j |-> 0,
     final_results |-> <<>>, basic_credits_used |-> 0, premium_credits_used |-> 0,
     compute_time |-> 0, debits |-> <<>>, slow_calls |-> <<>>,
     pre |-> NoUser, cur |-> StartDate, lookups |-> <<>>]

\* one call of consume_basic_credits or consume_premium_credits, as recorded
\* in batch.debits
Debit(currency, item, amount, accepted) ==
    [currency |-> currency, item |-> item, amount |-> amount, accepted |-> accepted]

---------------------------------------------------------------------------
(* The slow resolver and its result cache *)

\* the threads of the pool (line 59, max_workers=2)
Workers == {"w1", "w2"}

\* the identifiers: one more than the cache can hold
Smiles == 1..(CacheSize + 1)

\* what translate_forward does for one identifier: it returns a name,
\* returns nothing, or the import or the inference raises (lines 139-151)
EngineOutcomes == {"name", "empty", "raises"}

\* lines 147 and 151: the name, and "No name found" for an empty answer and
\* for every exception
EngineResult(smiles, outcome) ==
    IF outcome = "name" THEN StoutName(smiles) ELSE NoNameFound

\* the keys of the result cache, which is a sequence of entries from the
\* least recently used to the most recently used
Keys(c) == {c[m].key : m \in 1..Len(c)}

\* the entry of a key that is in the cache
EntryOf(c, smiles) == c[CHOOSE m \in 1..Len(c) : c[m].key = smiles]

\* the cache without the entry of smiles
Without(c, smiles) == SelectSeq(c, LAMBDA e : e.key # smiles)

\* a wrapper that looks nothing up: every call is a miss
NeverHit(c, smiles) == FALSE

\* lru_cache, the lookup of the key under the lock
CacheHit(c, smiles) == smiles \in Keys(c)

\* a hit that leaves the order of the entries alone
NoTouch(c, smiles) == c

\* lru_cache on a hit: the entry becomes the most recently used one
Touch(c, smiles) ==
    Append(Without(c, smiles), EntryOf(c, smiles))

\* lru_cache after the call of the function: a key that another thread
\* stored during the call is left as it is; in a full cache the new entry
\* takes the place of the least recently used one
StoreResult(c, smiles, result) ==
    IF smiles \in Keys(c) THEN c
    ELSE IF Len(c) >= CacheSize
         THEN Append(Tail(c), [key |-> smiles, value |-> result])
         ELSE Append(c, [key |-> smiles, value |-> result])

\* a failed slot that takes the slots before it down with it
AbortOnFailure(results, result) ==
    IF result = NoNameFound
    THEN [k \in 1..(Len(results) + 1) |-> NoNameFound]
    ELSE Append(results, result)

\* line 208: results.append(result if result else "No name found")
AppendResult(results, result) == Append(results, result)

\* the lists true_batch_stout_translate may be called with, up to a length
SlowBatches(maxlen) == UNION {[1..len -> Smiles] : len \in 0..maxlen}

\* how[k] tells where results[k] came from: "hit" (the cache), or what the
\* engine did in the call made for it
IdleWorker(jobs) ==
    [pc |-> "idle", smiles_list |-> <<>>, k |-> 0, results |-> <<>>,
     how |-> <<>>, jobs |-> jobs]

---------------------------------------------------------------------------
(* POST /auth/login *)

Emails == {"registered", "unknown"}

Passwords == {"right", "wrong"}

\* get_user_by_email: the user document of the address, or None
Nobody == "None"

get_user_by_email(email) == IF email = "registered" THEN "u1" ELSE Nobody

\* pwd_context.verify against the stored hash
verify_password(password, user) == user = "u1" /\ password = "right"

\* the ways a call to the database may end
DbOutcomes == {"returns", "raises"}

\* AuthService.authenticate_user: None for an unknown address, for a wrong
\* password, and for any exception of the lookup, which it logs
authenticate_user(email, password, db) ==
    IF db = "raises" THEN Nobody
    ELSE IF get_user_by_email(email) = Nobody THEN Nobody
    ELSE IF ~verify_password(password, get_user_by_email(email)) THEN Nobody
    ELSE get_user_by_email(email)

Answer(status_code, detail) == [status_code |-> status_code, detail |-> detail]

Token == Answer(200, "bearer")

Unauthorized == Answer(401, "Incorrect email or password")

LoginFailed == Answer(500, "Login failed")

\* except Exception of login_user: whatever the try block raised, the
\* HTTPException of the 401 answer included, is logged and answered 500
login_except(raised) == LoginFailed

NoLogin ==
    [pc |-> "idle", email |-> "", password |-> "", db |-> "", session |-> "",
     user |-> Nobody, answers |-> <<>>, sessions |-> 0]

---------------------------------------------------------------------------
(* RateLimiter *)

Identifiers == {"ip1", "ip2"}

\* RateLimiter._clean_old_requests, with the clock reading it takes itself
_clean_old_requests(requests_list, window_seconds, current_time) ==
    SelectSeq(requests_list, LAMBDA req_time : current_time - req_time < window_seconds)

\* one call of the limiter as the caller saw it
Call(kind, identifier, at, allowed) ==
    [kind |-> kind, identifier |-> identifier, at |-> at, allowed |-> allowed]

\* RateLimiter.__init__, and a clock
NoLimiter ==
    [time |-> 0,
     requests |-> [identifier \in Identifiers |-> <<>>],
     auth_requests |-> [identifier \in Identifiers |-> <<>>],
     calls |-> <<>>]

---------------------------------------------------------------------------
(* BackgroundLoader *)

\* the threads that call start_loading
Callers == {"c1", "c2"}

\* the ways _load_stout may end: the import and the warm-up return, or raise
LoadOutcomes == {"succeeds", "raises"}

\* get_status (lines 73-95), from the value of _loaded that it read first
\* and the values of _loading and _load_error that it read afterwards
StatusOf(loaded, loading, error) ==
    IF loaded
    THEN [status |-> "loaded", loaded |-> TRUE, loading |-> FALSE, error |-> "None"]
    ELSE IF loading
    THEN [status |-> "loading", loaded |-> FALSE, loading |-> TRUE, error |-> "None"]
    ELSE [status |-> "not_started", loaded |-> FALSE, loading |-> FALSE, error |-> error]

\* the thread that calls get_status and wait_for_load: where it is, what it
\* read, what get_status reported and what wait_for_load returned;
\* after_failure says that the last report was made after a failed load,
\* with no call of start_loading under way and no load thread running
NoObserver ==
    [pc |-> "idle", read_loaded |-> FALSE, reports |-> <<>>,
     waits |-> 0, ret |-> FALSE, waited |-> FALSE, in_progress |-> FALSE,
     after_failure |-> FALSE]

\* BackgroundLoader.__init__; threads are the threads started so far,
\* _load_thread is the last of them; after_failure says that the load
\* thread that ended last had failed and that no call of start_loading has
\* set _loading since
NoLoader ==
    [_loading |-> FALSE, _loaded |-> FALSE, _load_error |-> "None",
     threads |-> <<>>, caller |-> [c \in Callers |-> "idle"], starts |-> 0,
     noops |-> 0, after_failure |-> FALSE, observer |-> NoObserver]

---------------------------------------------------------------------------
(* Idle services *)

\* no login request was made
ServicesIdle ==
    /\ login = NoLogin
    /\ limiter = NoLimiter
    /\ loader = NoLoader

\* no thread of the pool has run anything and the result cache is empty
SlowIdle ==
    /\ stout_cache = <<>>
    /\ worker = [w \in Workers |-> IdleWorker(0)]

---------------------------------------------------------------------------
(* The state of one process *)

\* raised: an access to the store raised during the call
Idle(op, arg, user, cur, ret, pre, calls) ==
    [pc |-> "idle", op |-> op, arg |-> arg, user |-> user, cur |-> cur,
     ret |-> ret, pre |-> pre, calls |-> calls, raised |-> FALSE]

\* a process that has made no call and may make `calls` of them
InitProc(calls) == Idle("none", 0, NoUser, StartDate, FALSE, NoUser, calls)

TypeOK ==
    /\ now \in [year : Int, month : 1..12]
    /\ \A p \in Procs : Cardinality(cache[p]) <= 1
    /\ \A p \in Procs : proc[p].calls >= 0
    /\ \A p \in Procs : proc[p].pc \in {"idle", "reset_write", "read_user", "inc_write"}

\* The account is on one of the plans, in the current month, with a few
\* credits of each currency left; every process starts with an empty cache.
InitStore ==
    /\ now = StartDate
    /\ \E plan \in PlanNames, b \in 0..BasicSlack, q \in 0..PremiumSlack :
          store = Account(plan,
                          SUBSCRIPTION_PLANS[plan].basic_credits_limit - b,
                          PremiumUnits(SUBSCRIPTION_PLANS[plan].premium_credits_limit)
                              - q * PremiumQuantum,
                          StartDate)
    /\ cache = [p \in Procs |-> {}]

Init ==
    /\ InitStore
    /\ proc = [p \in Procs |-> InitProc(MaxCalls)]
    /\ batch = NoBatch
    /\ SlowIdle
    /\ ServicesIdle

---------------------------------------------------------------------------
(* FirestoreService: the calls, one action per access to the store *)

\* get_user_by_id called on its own (validate_session and the orchestrator
\* call it before anything else)
GetUser(p) ==
    /\ proc[p].pc = "idle"
    /\ proc[p].calls > 0
    /\ LET g == get_user_by_id(store, cache[p]) IN
          /\ cache' = [cache EXCEPT ![p] = g.cache]
          /\ proc' = [proc EXCEPT ![p] =
                 Idle("get_user", 0, g.user, now, TRUE, store, proc[p].calls - 1)]
    /\ UNCHANGED <<store, now, batch, stout_cache, worker, login, limiter, loader>>

\* The first lines of check_and_reset_monthly_credits, which every debit
\* runs first: read the user (None ends the check with False, and a debit
\* goes on to its own read), read the clock, decide whether to reset.
\* op is "check" (the call on its own), "basic", "premium", or "usage"
\* (get_user_credit_usage, which also runs the check first).
BeginCall(p, op, arg) ==
    /\ proc[p].pc = "idle"
    /\ proc[p].calls > 0
    /\ LET g == get_user_by_id(store, cache[p])
           reset == g.user # NoUser /\ NewMonth(now, g.user.monthly_reset_date)
       IN
          /\ cache' = [cache EXCEPT ![p] = g.cache]
          /\ proc' = [proc EXCEPT ![p] =
                 [pc     |-> IF reset THEN "reset_write"
                             ELSE IF op = "check" THEN "idle" ELSE "read_user",
                  op     |-> op,
                  arg    |-> arg,
                  user   |-> g.user,
                  cur    |-> now,
                  ret    |-> FALSE,
                  pre    |-> store,
                  calls  |-> proc[p].calls - 1,
                  raised |-> FALSE]]
    /\ UNCHANGED <<store, now, batch, stout_cache, worker, login, limiter, loader>>

CheckAndReset(p) == BeginCall(p, "check", 0)

ConsumeBasic(p, credits_to_use) == BeginCall(p, "basic", credits_to_use)

ConsumePremium(p, compute_seconds) == BeginCall(p, "premium", compute_seconds)

\* check_credit_limits: get_user_credit_usage, then the test of the two
\* remainders
CheckCreditLimits(p) == BeginCall(p, "usage", 0)

\* user_ref.update of check_and_reset_monthly_credits; the cache is left alone
ResetWrite(p) ==
    /\ proc[p].pc = "reset_write"
    /\ store' = ResetMonthly(store, proc[p].cur)
    /\ proc' = [proc EXCEPT ![p].pc = IF proc[p].op = "check" THEN "idle" ELSE "read_user",
                            ![p].ret = (proc[p].op = "check")]
    /\ UNCHANGED <<now, cache, batch, stout_cache, worker, login, limiter, loader>>

\* the debit's own get_user_by_id (None returns False) and its limit check;
\* for get_user_credit_usage, the get_user_by_id whose fields are reported,
\* and ret tells whether check_credit_limits lets the request in
ReadUser(p) ==
    /\ proc[p].pc = "read_user"
    /\ LET g == get_user_by_id(store, cache[p])
           exceeded == \/ g.user = NoUser
                       \/ IF proc[p].op = "basic"
                          THEN BasicExceeded(g.user, proc[p].arg)
                          ELSE PremiumExceeded(g.user, proc[p].arg)
       IN
          /\ cache' = [cache EXCEPT ![p] = g.cache]
          /\ proc' = IF proc[p].op = "usage"
                      THEN [proc EXCEPT ![p].user = g.user,
                                        ![p].pc = "idle",
                                        ![p].ret = Admitted(g.user)]
                      ELSE [proc EXCEPT ![p].user = g.user,
                                        ![p].pc = IF exceeded THEN "idle" ELSE "inc_write",
                                        ![p].ret = FALSE]
    /\ UNCHANGED <<store, now, batch, stout_cache, worker, login, limiter, loader>>

\* user_ref.update with firestore.Increment, then _invalidate_user_cache
IncWrite(p) ==
    /\ proc[p].pc = "inc_write"
    /\ store' = IF proc[p].op = "basic"
                THEN IncrementBasic(store, proc[p].arg)
                ELSE IncrementPremium(store, proc[p].arg)
    /\ cache' = [cache EXCEPT ![p] = invalidate_user_cache(cache[p])]
    /\ proc' = [proc EXCEPT ![p].pc = "idle", ![p].ret = TRUE]
    /\ UNCHANGED <<now, batch, stout_cache, worker, login, limiter, loader>>

\* update_user_subscription: an unknown plan raises ValueError, which the
\* call turns into False; a known plan is one update of the document, which
\* raises for a document that does not exist (False again)
UpdateSubscription(p, new_plan) ==
    /\ proc[p].pc = "idle"
    /\ proc[p].calls > 0
    /\ LET done == new_plan \in PlanNames /\ store # NoUser IN
          /\ store' = IF done THEN SetPlan(store, new_plan) ELSE store
          /\ proc' = [proc EXCEPT ![p] =
                 Idle("update", new_plan, NoUser, now, done, store, proc[p].calls - 1)]
    /\ UNCHANGED <<now, cache, batch, stout_cache, worker, login, limiter, loader>>

\* reset_user_credits: one update of the document, then
\* _invalidate_user_cache; for a document that does not exist the update
\* raises and the call returns False
ResetUserCredits(p) ==
    /\ proc[p].pc = "idle"
    /\ proc[p].calls > 0
    /\ store' = IF store # NoUser THEN ResetUsage(store) ELSE store
    /\ cache' = [cache EXCEPT ![p] =
           IF store # NoUser THEN invalidate_user_cache(cache[p]) ELSE cache[p]]
    /\ proc' = [proc EXCEPT ![p] =
           Idle("reset", 0, NoUser, now, store # NoUser, store, proc[p].calls - 1)]
    /\ UNCHANGED <<now, batch, stout_cache, worker, login, limiter, loader>>

\* create_user for an email that no document holds yet (an existing one
\* raises ValueError): one new document
CreateUser(p) ==
    /\ proc[p].pc = "idle"
    /\ proc[p].calls > 0
    /\ store = NoUser
    /\ store' = NewAccount(now)
    /\ proc' = [proc EXCEPT ![p] =
           Idle("create", 0, NoUser, now, TRUE, store, proc[p].calls - 1)]
    /\ UNCHANGED <<now, cache, batch, stout_cache, worker, login, limiter, loader>>

\* _get_cached_user drops an entry older than _cache_ttl (300 s): the entry
\* of a process may be gone at its next read of the cache (a call that is
\* about to write reads the cache no more)
Expire(p) ==
    /\ proc[p].pc \in {"idle", "read_user"}
    /\ cache[p] # {}
    /\ cache' = [cache EXCEPT ![p] = {}]
    /\ UNCHANGED <<store, now, proc, batch, stout_cache, worker, login, limiter, loader>>

\* The ledger calls: check_and_reset_monthly_credits on its own and the two
\* debits with their amounts.
LedgerCalls ==
    {<<"check", 0>>}
        \cup {<<"basic", k>> : k \in 1..MaxBasicDebit}
        \cup {<<"premium", t>> : t \in ComputeTimes}

\* The document read of the first get_user_by_id raises (there is a read only
\* when the cache holds no entry): get_user_by_id logs the error and returns
\* None, check_and_reset_monthly_credits returns False, and a debit goes on
\* to its own get_user_by_id.
BeginCallRaises(p, op, arg) ==
    /\ proc[p].pc = "idle"
    /\ proc[p].calls > 0
    /\ cache[p] = {}
    /\ proc' = [proc EXCEPT ![p] =
           [pc     |-> IF op = "check" THEN "idle" ELSE "read_user",
            op     |-> op,
            arg    |-> arg,
            user   |-> NoUser,
            cur    |-> now,
            ret    |-> FALSE,
            pre    |-> store,
            calls  |-> proc[p].calls - 1,
            raised |-> TRUE]]
    /\ UNCHANGED <<store, now, cache, batch, stout_cache, worker, login, limiter, loader>>

\* user_ref.update of check_and_reset_monthly_credits raises: the except of
\* that function returns False, and a debit goes on to its own read
ResetWriteRaises(p) ==
    /\ proc[p].pc = "reset_write"
    /\ proc' = [proc EXCEPT ![p].pc = IF proc[p].op = "check" THEN "idle" ELSE "read_user",
                            ![p].ret = FALSE,
                            ![p].raised = TRUE]
    /\ UNCHANGED <<store, now, cache, batch, stout_cache, worker, login, limiter, loader>>

\* the document read of the debit's own get_user_by_id raises: None, and the
\* debit returns False
ReadUserRaises(p) ==
    /\ proc[p].pc = "read_user"
    /\ cache[p] = {}
    /\ proc' = [proc EXCEPT ![p].pc = "idle",
                            ![p].user = NoUser,
                            ![p].ret = FALSE,
                            ![p].raised = TRUE]
    /\ UNCHANGED <<store, now, cache, batch, stout_cache, worker, login, limiter, loader>>

\* user_ref.update with firestore.Increment raises: the except of the debit
\* returns False; _invalidate_user_cache is not reached
IncWriteRaises(p) ==
    /\ proc[p].pc = "inc_write"
    /\ proc' = [proc EXCEPT ![p].pc = "idle",
                            ![p].ret = FALSE,
                            ![p].raised = TRUE]
    /\ UNCHANGED <<store, now, cache, batch, stout_cache, worker, login, limiter, loader>>

\* datetime.utcnow() moves into the next calendar month
Tick ==
    /\ MonthsSince(StartDate, now) < MaxTicks
    /\ now' = NextMonth(now)
    /\ UNCHANGED <<store, cache, proc, batch, stout_cache, worker, login, limiter, loader>>

---------------------------------------------------------------------------
(* The orchestrator's steps, run by the process Solo *)

\* The request arrives: get_user_by_id; without a user the call returns
\* "User not found" for every identifier; otherwise a fast lookup is launched
\* for every identifier (lines 241-250, up to the await of the gather).
Submit(n) ==
    /\ batch.pc = "idle"
    /\ LET g == get_user_by_id(store, cache[Solo])
           arrived == [NoBatch EXCEPT !.n = n, !.pre = store, !.cur = now]
       IN
          /\ cache' = [cache EXCEPT ![Solo] = g.cache]
          /\ batch' = IF UserMissing(g.user)
                      THEN [arrived EXCEPT !.pc = "done",
                                           !.final_results = [k \in 1..n |-> UserNotFound]]
                      ELSE [arrived EXCEPT !.pc = "fast",
                                           !.lookups = [k \in 1..n |-> NoLookup],
                                           !.final_results = [k \in 1..n |-> None]]
    /\ UNCHANGED <<store, now, proc, stout_cache, worker, login, limiter, loader>>

\* The gather returns: every lookup gave a name or None.
FastDone(results) ==
    /\ batch.pc = "fast"
    /\ batch' = [batch EXCEPT !.pc = "basic", !.pubchem_results = results, !.i = 1]
    /\ UNCHANGED <<store, now, cache, proc, stout_cache, worker, login, limiter, loader>>

\* pubchem_name_from_smiles up to its await (lines 155-178): the coroutines
\* start in the order of the list, each runs the local lookup and returns
\* its name, or hands get_compounds to the executor and waits
LocalLookup(k, local) ==
    /\ batch.pc = "fast"
    /\ k \in 1..batch.n
    /\ batch.lookups[k].pc = "local"
    /\ \A m \in 1..(k - 1) : batch.lookups[m].pc # "local"
    /\ batch' = [batch EXCEPT !.lookups[k] =
           IF LocalNamed(local)
           THEN [@ EXCEPT !.pc = "done", !.local = local, !.result = "name",
                          !.local_calls = @ + 1]
           ELSE [@ EXCEPT !.pc = "remote", !.local = local,
                          !.local_calls = @ + 1, !.remote_calls = @ + 1]]
    /\ UNCHANGED <<store, now, cache, proc, stout_cache, worker, login, limiter, loader>>

\* a plain await of the executor future ends only when the remote service
\* answers or fails
AwaitEndsByAnswer(remote) == remote \in RemoteOutcomes \ {"timeout"}

\* asyncio.wait_for(..., timeout=5.0) ends when the remote service answers or
\* fails, and with TimeoutError when the five seconds are over (lines 171-177)
AwaitEnds(remote) == remote \in RemoteOutcomes

\* the await of wait_for ends (lines 171-190), for the coroutines in any order
RemoteLookup(k, remote) ==
    /\ batch.pc = "fast"
    /\ k \in 1..batch.n
    /\ batch.lookups[k].pc = "remote"
    /\ AwaitEnds(remote)
    /\ batch' = [batch EXCEPT !.lookups[k] =
           [@ EXCEPT !.pc = "done", !.remote = remote, !.result = RemoteResult(remote)]]
    /\ UNCHANGED <<store, now, cache, proc, stout_cache, worker, login, limiter, loader>>

\* asyncio.gather(*pubchem_tasks, return_exceptions=True) returns when every
\* coroutine is over, with their results in the order of the list (line 256)
Gather ==
    /\ \A k \in 1..batch.n : batch.lookups[k].pc = "done"
    /\ FastDone([k \in 1..batch.n |-> batch.lookups[k].result])

\* One round of the loop over the fast results (lines 261-280).
BasicStep ==
    /\ batch.pc = "basic"
    /\ batch.i <= batch.n
    /\ LET i == batch.i
           next == [batch EXCEPT !.i = i + 1]
       IN
          IF FastNamed(batch.pubchem_results[i])
          THEN LET r == consume_basic_credits(store, cache[Solo], now, 1)
                   logged == [next EXCEPT !.debits =
                                  Append(@, Debit("basic", i, 1, r.ret))]
               IN
                  /\ store' = r.store
                  /\ cache' = [cache EXCEPT ![Solo] = r.cache]
                  /\ batch' = IF r.ret
                              THEN [logged EXCEPT !.final_results[i] = PubchemName(i),
                                                  !.basic_credits_used = @ + 1,
                                                  !.stout_indices = FallBack(@, i, TRUE)]
                              ELSE [logged EXCEPT !.stout_indices = FallBack(@, i, FALSE)]
          ELSE /\ batch' = [next EXCEPT !.stout_indices = Append(@, i)]
               /\ UNCHANGED <<store, cache>>
    /\ UNCHANGED <<now, proc, stout_cache, worker, login, limiter, loader>>

\* After the loop: with nothing left for the slow path the call goes on to
\* its last lines; otherwise true_batch_stout_translate(stout_needed) is
\* handed to the executor.
BasicDone ==
    /\ batch.pc = "basic"
    /\ batch.i > batch.n
    /\ batch' = IF SlowNeeded(batch.stout_indices)
                THEN [batch EXCEPT !.pc = "slow",
                                   !.slow_calls = Append(@, batch.stout_indices)]
                ELSE [batch EXCEPT !.pc = "fill"]
    /\ UNCHANGED <<store, now, cache, proc, stout_cache, worker, login, limiter, loader>>

\* run_in_executor(true_batch_stout_translate) returns a result for every
\* identifier of stout_needed, in order: its name, or "No name found".
SlowDone(named, elapsed) ==
    /\ batch.pc = "slow"
    /\ batch' = [batch EXCEPT
           !.pc = "premium",
           !.stout_results =
               [k \in 1..Len(batch.stout_indices) |->
                   IF k \in named THEN StoutName(batch.stout_indices[k]) ELSE NoNameFound],
           !.compute_time = elapsed,
           !.j = 1]
    /\ UNCHANGED <<store, now, cache, proc, stout_cache, worker, login, limiter, loader>>

\* the await of run_in_executor raises: lines 303-306
SlowRaises ==
    /\ batch.pc = "slow"
    /\ batch' = [batch EXCEPT
           !.pc = "fill",
           !.final_results = MarkFailed(@, batch.stout_indices)]
    /\ UNCHANGED <<store, now, cache, proc, stout_cache, worker, login, limiter, loader>>

\* One round of the loop over the slow results (lines 293-301).
PremiumStep ==
    /\ batch.pc = "premium"
    /\ batch.j <= Len(batch.stout_indices)
    /\ LET j == batch.j
           idx == zip_idx(batch.stout_indices, j)
           seconds == individual_compute_time(batch.compute_time, Len(batch.stout_indices))
           r == consume_premium_credits(store, cache[Solo], now, seconds)
           logged == [batch EXCEPT !.j = j + 1,
                                   !.debits = Append(@, Debit("premium", batch.stout_indices[j],
                                                  credits_needed(seconds), r.ret))]
       IN
          /\ store' = r.store
          /\ cache' = [cache EXCEPT ![Solo] = r.cache]
          /\ batch' = [logged EXCEPT
                          !.final_results = SlowOutcome(@, idx, batch.stout_results[j], r.ret),
                          !.premium_credits_used =
                              IF r.ret THEN @ + credits_for_this_molecule(seconds) ELSE @]
    /\ UNCHANGED <<now, proc, stout_cache, worker, login, limiter, loader>>

PremiumDone ==
    /\ batch.pc = "premium"
    /\ batch.j > Len(batch.stout_indices)
    /\ batch' = [batch EXCEPT !.pc = "fill"]
    /\ UNCHANGED <<store, now, cache, proc, stout_cache, worker, login, limiter, loader>>

\* lines 308-313: every position still None becomes "No name found"; return
Return ==
    /\ batch.pc = "fill"
    /\ batch' = [batch EXCEPT !.pc = "done", !.final_results = FillNone(@)]
    /\ UNCHANGED <<store, now, cache, proc, stout_cache, worker, login, limiter, loader>>

---------------------------------------------------------------------------
(* POST /auth/login: login_user *)

\* the request arrives
LoginUser(email, password) ==
    /\ login.pc = "idle"
    /\ Len(login.answers) < MaxLogins
    /\ login' = [login EXCEPT !.pc = "authenticate", !.email = email,
                              !.password = password, !.db = "", !.session = "",
                              !.user = Nobody]
    /\ UNCHANGED <<store, now, cache, proc, batch, stout_cache, worker, limiter, loader>>

\* await auth_service.authenticate_user returns; for None the handler raises
\* the 401 HTTPException inside its try block, and its except clause answers
AuthenticateUser(db) ==
    /\ login.pc = "authenticate"
    /\ LET authenticated_user == authenticate_user(login.email, login.password, db) IN
       login' = IF authenticated_user = Nobody
                THEN [login EXCEPT !.pc = "idle", !.db = db,
                                   !.answers = Append(@, login_except(Unauthorized))]
                ELSE [login EXCEPT !.pc = "session", !.db = db,
                                   !.user = authenticated_user]
    /\ UNCHANGED <<store, now, cache, proc, batch, stout_cache, worker, limiter, loader>>

\* await auth_service.create_user_session returns the token, or re-raises
\* what create_session raised
CreateUserSession(session) ==
    /\ login.pc = "session"
    /\ login' = IF session = "raises"
                THEN [login EXCEPT !.pc = "idle", !.session = session,
                                   !.answers = Append(@, login_except(Answer(0, "error")))]
                ELSE [login EXCEPT !.pc = "idle", !.session = session,
                                   !.sessions = @ + 1,
                                   !.answers = Append(@, Token)]
    /\ UNCHANGED <<store, now, cache, proc, batch, stout_cache, worker, limiter, loader>>

---------------------------------------------------------------------------
(* RateLimiter *)

\* RateLimiter.is_allowed: it reads the clock (current_time), then
\* _clean_old_requests reads the clock again, skew ticks later, and the
\* request is recorded with the first reading
IsAllowed(kind, identifier, max_requests, window_seconds, skew) ==
    /\ Len(limiter.calls) < MaxRequests
    /\ limiter.time + skew <= MaxClock
    /\ LET current_time == limiter.time
           cleaned == _clean_old_requests(limiter.requests[identifier],
                                          window_seconds, current_time + skew)
           allowed == ~(Len(cleaned) >= max_requests)
       IN
          limiter' = [limiter EXCEPT
              !.time = current_time + skew,
              !.requests[identifier] =
                  IF allowed THEN Append(cleaned, current_time) ELSE cleaned,
              !.calls = Append(@, Call(kind, identifier, current_time, allowed))]
    /\ UNCHANGED <<store, now, cache, proc, batch, stout_cache, worker, login, loader>>

\* RateLimiter.is_auth_allowed
IsAuthAllowed(identifier, skew) ==
    IsAllowed("auth", identifier, AuthLimit, Window, skew)

\* RateLimiter.is_api_allowed
IsApiAllowed(identifier, skew) ==
    IsAllowed("api", identifier, ApiLimit, Window, skew)

\* time passes between two calls
Clock ==
    /\ limiter.time < MaxClock
    /\ limiter' = [limiter EXCEPT !.time = @ + 1]
    /\ UNCHANGED <<store, now, cache, proc, batch, stout_cache, worker, login, loader>>

---------------------------------------------------------------------------
(* BackgroundLoader *)

\* start_loading, line 27: the caller reads _loading and _loaded and returns
\* when one of them is set
StartLoading(c) ==
    /\ loader.caller[c] = "idle"
    /\ loader.starts < MaxStarts
    /\ loader' = IF loader._loading \/ loader._loaded
                 THEN [loader EXCEPT !.starts = @ + 1, !.noops = @ + 1]
                 ELSE [loader EXCEPT !.starts = @ + 1, !.caller[c] = "set"]
    /\ UNCHANGED <<store, now, cache, proc, batch, stout_cache, worker, login, limiter>>

\* start_loading, lines 31-33
StartSet(c) ==
    /\ loader.caller[c] = "set"
    /\ loader' = [loader EXCEPT !._loading = TRUE, !._load_error = "None",
                                !.after_failure = FALSE, !.caller[c] = "thread"]
    /\ UNCHANGED <<store, now, cache, proc, batch, stout_cache, worker, login, limiter>>

\* start_loading, lines 36-37: the thread is created and started
StartThread(c) ==
    /\ loader.caller[c] = "thread"
    /\ loader' = [loader EXCEPT !.threads = Append(@, [pc |-> "load", how |-> ""]),
                                !.caller[c] = "idle"]
    /\ UNCHANGED <<store, now, cache, proc, batch, stout_cache, worker, login, limiter>>

\* _load_stout, lines 41-58: the try block ends and sets _loaded, or the
\* except clause records the error
LoadStout(t, outcome) ==
    /\ t \in 1..Len(loader.threads)
    /\ loader.threads[t].pc = "load"
    /\ loader' = IF outcome = "succeeds"
                 THEN [loader EXCEPT !._loaded = TRUE,
                                     !.threads[t] = [pc |-> "finally", how |-> outcome]]
                 ELSE [loader EXCEPT !._load_error = "error",
                                     !.threads[t] = [pc |-> "finally", how |-> outcome]]
    /\ UNCHANGED <<store, now, cache, proc, batch, stout_cache, worker, login, limiter>>

\* _load_stout, lines 60-61
Finally(t) ==
    /\ t \in 1..Len(loader.threads)
    /\ loader.threads[t].pc = "finally"
    /\ loader' = [loader EXCEPT !._loading = FALSE,
                                !.threads[t].pc = "ended",
                                !.after_failure = (loader.threads[t].how = "raises")]
    /\ UNCHANGED <<store, now, cache, proc, batch, stout_cache, worker, login, limiter>>

\* get_status, line 73: the observer reads _loaded
GetStatus ==
    /\ loader.observer.pc \in {"idle", "waited"}
    /\ Len(loader.observer.reports) + loader.observer.waits < MaxObservations
    /\ loader' = [loader EXCEPT !.observer.pc = "status",
                                !.observer.read_loaded = loader._loaded]
    /\ UNCHANGED <<store, now, cache, proc, batch, stout_cache, worker, login, limiter>>

\* get_status, lines 74-95: the observer reads _loading and _load_error and
\* returns the report
GetStatusReturn ==
    /\ loader.observer.pc = "status"
    /\ loader' = [loader EXCEPT
           !.observer.pc = "idle",
           !.observer.after_failure =
               /\ loader.after_failure
               /\ \A c \in Callers : loader.caller[c] = "idle"
               /\ \A t \in 1..Len(loader.threads) : loader.threads[t].pc = "ended",
           !.observer.reports =
               Append(@, StatusOf(loader.observer.read_loaded, loader._loading,
                                  loader._load_error))]
    /\ UNCHANGED <<store, now, cache, proc, batch, stout_cache, worker, login, limiter>>

\* wait_for_load, lines 99-100
WaitForLoad ==
    /\ loader.observer.pc \in {"idle", "waited"}
    /\ Len(loader.observer.reports) + loader.observer.waits < MaxObservations
    /\ loader' = IF loader._loaded
                 THEN [loader EXCEPT !.observer.waits = @ + 1,
                                     !.observer.pc = "waited",
                                     !.observer.waited = FALSE,
                                     !.observer.in_progress = loader._loading,
                                     !.observer.ret = TRUE]
                 ELSE [loader EXCEPT !.observer.waits = @ + 1,
                                     !.observer.waited = FALSE,
                                     !.observer.in_progress = loader._loading,
                                     !.observer.pc = "wait check"]
    /\ UNCHANGED <<store, now, cache, proc, batch, stout_cache, worker, login, limiter>>

\* wait_for_load, lines 102-103
WaitCheck ==
    /\ loader.observer.pc = "wait check"
    /\ loader' = IF ~loader._loading
                 THEN [loader EXCEPT !.observer.pc = "waited", !.observer.ret = FALSE]
                 ELSE [loader EXCEPT !.observer.pc = "waiting", !.observer.waited = TRUE]
    /\ UNCHANGED <<store, now, cache, proc, batch, stout_cache, worker, login, limiter>>

\* wait_for_load, lines 105-107: the loop ends when _loading is read False or
\* the timeout is over
WaitLoop(timed_out) ==
    /\ loader.observer.pc = "waiting"
    /\ ~loader._loading \/ timed_out
    /\ loader' = [loader EXCEPT !.observer.pc = "wait return"]
    /\ UNCHANGED <<store, now, cache, proc, batch, stout_cache, worker, login, limiter>>

\* wait_for_load, line 109
WaitReturn ==
    /\ loader.observer.pc = "wait return"
    /\ loader' = [loader EXCEPT !.observer.pc = "waited", !.observer.ret = loader._loaded]
    /\ UNCHANGED <<store, now, cache, proc, batch, stout_cache, worker, login, limiter>>

---------------------------------------------------------------------------
(* Specifications *)

\* Two server processes debit one account.
Next ==
    \/ \E p \in Procs : GetUser(p)
    \/ \E p \in Procs : CheckAndReset(p)
    \/ \E p \in Procs, k \in 1..MaxBasicDebit : ConsumeBasic(p, k)
    \/ \E p \in Procs, t \in ComputeTimes : ConsumePremium(p, t)
    \/ \E p \in Procs : ResetWrite(p)
    \/ \E p \in Procs : ReadUser(p)
    \/ \E p \in Procs : IncWrite(p)
    \/ \E p \in Procs : Expire(p)
    \/ Tick

Spec == Init /\ [][Next]_vars

\* One server process runs every kind of ledger call, one after the other.
InitSeq ==
    /\ InitStore
    /\ proc = [p \in Procs |-> InitProc(IF p = Solo THEN MaxSeqCalls ELSE 0)]
    /\ batch = NoBatch
    /\ SlowIdle
    /\ ServicesIdle

NextSeq ==
    \/ Next
    \/ \E p \in Procs, plan \in PlanNames \cup {UnknownPlan} : UpdateSubscription(p, plan)
    \/ \E p \in Procs : ResetUserCredits(p)
    \/ \E p \in Procs : CheckCreditLimits(p)

SpecSeq == InitSeq /\ [][NextSeq]_vars

\* One server process runs every kind of ledger call on an account that may
\* not exist yet and that create_user may create.
InitLife ==
    /\ \/ InitStore
       \/ (now = StartDate /\ store = NoUser /\ cache = [p \in Procs |-> {}])
    /\ proc = [p \in Procs |-> InitProc(IF p = Solo THEN MaxSeqCalls ELSE 0)]
    /\ batch = NoBatch
    /\ SlowIdle
    /\ ServicesIdle

NextLife ==
    \/ NextSeq
    \/ \E p \in Procs : CreateUser(p)

SpecLife == InitLife /\ [][NextLife]_vars

\* Two server processes run their ledger calls one after the other: a call
\* starts only when no call of another process is under way.
Quiet(p) == \A q \in Procs \ {p} : proc[q].pc = "idle"

NextTurns ==
    \/ \E p \in Procs : Quiet(p) /\ CheckAndReset(p)
    \/ \E p \in Procs, k \in 1..MaxBasicDebit : Quiet(p) /\ ConsumeBasic(p, k)
    \/ \E p \in Procs, t \in ComputeTimes : Quiet(p) /\ ConsumePremium(p, t)
    \/ \E p \in Procs : ResetWrite(p)
    \/ \E p \in Procs : ReadUser(p)
    \/ \E p \in Procs : IncWrite(p)
    \/ \E p \in Procs : Expire(p)
    \/ Tick

SpecTurns == Init /\ [][NextTurns]_vars

\* One server process runs the debits on a store whose reads and writes may
\* raise, for an account that may be missing from the store.
InitFault ==
    /\ \/ InitStore
       \/ (now = StartDate /\ store = NoUser /\ cache = [p \in Procs |-> {}])
    /\ proc = [p \in Procs |-> InitProc(IF p = Solo THEN MaxSeqCalls ELSE 0)]
    /\ batch = NoBatch
    /\ SlowIdle
    /\ ServicesIdle

NextFault ==
    \/ Next
    \/ \E p \in Procs, c \in LedgerCalls : BeginCallRaises(p, c[1], c[2])
    \/ \E p \in Procs : ResetWriteRaises(p)
    \/ \E p \in Procs : ReadUserRaises(p)
    \/ \E p \in Procs : IncWriteRaises(p)

SpecFault == InitFault /\ [][NextFault]_vars

\* Every server process issues one single-unit basic debit in the same month.
InitRace ==
    /\ InitStore
    /\ proc = [p \in Procs |-> InitProc(1)]
    /\ batch = NoBatch
    /\ SlowIdle
    /\ ServicesIdle

NextRace ==
    \/ \E p \in Procs : ConsumeBasic(p, 1)
    \/ \E p \in Procs : ReadUser(p)
    \/ \E p \in Procs : IncWrite(p)

SpecRace == InitRace /\ [][NextRace]_vars

\* One server process serves one batch for the account, which may be missing
\* from the store.
InitBatch ==
    /\ \/ InitStore
       \/ (now = StartDate /\ store = NoUser /\ cache = [p \in Procs |-> {}])
    /\ proc = [p \in Procs |-> InitProc(0)]
    /\ batch = NoBatch
    /\ SlowIdle
    /\ ServicesIdle

NextBatch ==
    \/ \E n \in 0..MaxItems : Submit(n)
    \/ \E results \in [1..batch.n -> {"name", "None"}] : FastDone(results)
    \/ BasicStep
    \/ BasicDone
    \/ \E named \in SUBSET (1..Len(batch.stout_indices)),
          elapsed \in EvenTimes(Len(batch.stout_indices)) :
          SlowDone(named, elapsed)
    \/ SlowRaises
    \/ PremiumStep
    \/ PremiumDone
    \/ Return
    \/ Tick

SpecBatch == InitBatch /\ [][NextBatch]_vars

---------------------------------------------------------------------------
(* The slow resolver's steps, run by the threads of the pool *)

\* run_in_executor hands true_batch_stout_translate(smiles_list) to a free
\* thread of the pool (lines 288, 466; a call of cached_stout_translate of
\* lines 233 and 424 is a list of one)
StartJob(w, smiles_list) ==
    /\ worker[w].pc = "idle"
    /\ worker[w].jobs > 0
    /\ worker' = [worker EXCEPT ![w] =
           [pc |-> "translate", smiles_list |-> smiles_list, k |-> 1,
            results |-> <<>>, how |-> <<>>, jobs |-> worker[w].jobs - 1]]
    /\ UNCHANGED <<store, now, cache, proc, batch, stout_cache, login, limiter, loader>>

\* cached_stout_translate(smiles) for the next identifier of the list: a hit
\* returns the cached result; after a miss the thread calls the function
\* without holding the lock of the cache
CacheLookup(w) ==
    /\ worker[w].pc = "translate"
    /\ worker[w].k <= Len(worker[w].smiles_list)
    /\ LET smiles == worker[w].smiles_list[worker[w].k] IN
          IF CacheHit(stout_cache, smiles)
          THEN /\ worker' = [worker EXCEPT
                      ![w].results =
                          AppendResult(@, EntryOf(stout_cache, smiles).value),
                      ![w].how = Append(@, "hit"),
                      ![w].k = @ + 1]
               /\ stout_cache' = Touch(stout_cache, smiles)
          ELSE /\ worker' = [worker EXCEPT ![w].pc = "infer"]
               /\ UNCHANGED stout_cache
    /\ UNCHANGED <<store, now, cache, proc, batch, login, limiter, loader>>

\* the body of cached_stout_translate returns (lines 132-151) and lru_cache
\* stores the result
Infer(w, outcome) ==
    /\ worker[w].pc = "infer"
    /\ LET smiles == worker[w].smiles_list[worker[w].k]
           result == EngineResult(smiles, outcome)
       IN
          /\ stout_cache' = StoreResult(stout_cache, smiles, result)
          /\ worker' = [worker EXCEPT
                 ![w].pc = "translate",
                 ![w].results = AppendResult(@, result),
                 ![w].how = Append(@, outcome),
                 ![w].k = @ + 1]
    /\ UNCHANGED <<store, now, cache, proc, batch, login, limiter, loader>>

\* true_batch_stout_translate returns its list (line 216; for an empty list
\* line 214 divides by zero and line 221 returns the empty list)
FinishJob(w) ==
    /\ worker[w].pc = "translate"
    /\ worker[w].k > Len(worker[w].smiles_list)
    /\ worker' = [worker EXCEPT ![w].pc = "idle"]
    /\ UNCHANGED <<store, now, cache, proc, batch, stout_cache, login, limiter, loader>>

\* the threads that may take a call
Free == {w \in Workers : worker[w].pc = "idle" /\ worker[w].jobs > 0}

\* The steps of the pool's threads.
NextSlow ==
    \/ \E w \in Workers : CacheLookup(w)
    \/ \E w \in Workers, outcome \in EngineOutcomes : Infer(w, outcome)
    \/ \E w \in Workers : FinishJob(w)

\* no request for an account is being served
RequestIdle ==
    /\ now = StartDate
    /\ store = NoUser
    /\ cache = [p \in Procs |-> {}]
    /\ proc = [p \in Procs |-> InitProc(0)]
    /\ batch = NoBatch
    /\ ServicesIdle

\* One thread of the pool resolves one list, long enough for an identifier
\* to be evicted and asked for again, while time passes.
InitSlow ==
    /\ RequestIdle
    /\ stout_cache = <<>>
    /\ worker = [w \in Workers |-> IdleWorker(IF w = "w1" THEN 1 ELSE 0)]

NextSlowOne ==
    \/ \E w \in Free, smiles_list \in SlowBatches(CacheSize + 2) : StartJob(w, smiles_list)
    \/ NextSlow
    \/ Tick

SpecSlow == InitSlow /\ [][NextSlowOne]_vars

\* The two threads of the pool run calls side by side, each for one
\* identifier at a time, and share the result cache.
InitPool ==
    /\ RequestIdle
    /\ stout_cache = <<>>
    /\ worker = [w \in Workers |-> IdleWorker(MaxJobs)]

NextPool ==
    \/ \E w \in Free, smiles_list \in SlowBatches(1) : StartJob(w, smiles_list)
    \/ NextSlow

SpecPool == InitPool /\ [][NextPool]_vars

\* One server process serves the fast path of one batch for an account on
\* the free plan: the lookups of every identifier, then the basic loop.
InitFast ==
    /\ now = StartDate
    /\ \E b \in 0..BasicSlack :
          store = Account("free", SUBSCRIPTION_PLANS["free"].basic_credits_limit - b,
                          0, StartDate)
    /\ cache = [p \in Procs |-> {}]
    /\ proc = [p \in Procs |-> InitProc(0)]
    /\ batch = NoBatch
    /\ SlowIdle
    /\ ServicesIdle

NextFast ==
    \/ \E n \in 0..MaxItems : Submit(n)
    \/ \E k \in 1..batch.n, local \in LocalOutcomes : LocalLookup(k, local)
    \/ \E k \in 1..batch.n, remote \in RemoteOutcomes : RemoteLookup(k, remote)
    \/ Gather
    \/ BasicStep
    \/ BasicDone

SpecFast == InitFast /\ [][NextFast]_vars

\* One server process serves whole batches, lookups and slow call included,
\* for an account on the free plan.  The outcomes of a lookup that give no
\* name are handled alike, so one of them is drawn for each lookup.

\* a step of the call that the event loop can run without the remote service:
\* a local lookup is a synchronous call, the timer of wait_for ends the
\* await of a remote lookup, the ledger calls are synchronous, and the slow
\* call is taken to return
ServeStep ==
    \/ \E k \in 1..batch.n, local \in {"name", "none"} : LocalLookup(k, local)
    \/ \E k \in 1..batch.n : RemoteLookup(k, "timeout")
    \/ Gather
    \/ BasicStep
    \/ BasicDone
    \/ \E named \in SUBSET (1..Len(batch.stout_indices)),
          elapsed \in EvenTimes(Len(batch.stout_indices)) : SlowDone(named, elapsed)
    \/ PremiumStep
    \/ PremiumDone
    \/ Return

NextServe ==
    \/ \E n \in 0..MaxItems : Submit(n)
    \/ \E k \in 1..batch.n, remote \in {"name", "timeout"} : RemoteLookup(k, remote)
    \/ SlowRaises
    \/ ServeStep

\* The event loop runs a coroutine that can run.  Nothing obliges a caller to
\* submit a batch, the remote service to answer, or the slow call to raise.
SpecServe == InitFast /\ [][NextServe]_vars /\ WF_vars(ServeStep)

\* The server answers login requests, one after the other.
InitLogin == RequestIdle /\ SlowIdle

NextLogin ==
    \/ \E email \in Emails, password \in Passwords : LoginUser(email, password)
    \/ \E db \in DbOutcomes : AuthenticateUser(db)
    \/ \E session \in DbOutcomes : CreateUserSession(session)

SpecLogin == InitLogin /\ [][NextLogin]_vars

\* Callers ask is_allowed with one max_requests and one window_seconds.
NextWindow ==
    \/ \E identifier \in Identifiers, skew \in 0..MaxSkew :
          IsAllowed("api", identifier, ApiLimit, Window, skew)
    \/ Clock

SpecWindow == InitLogin /\ [][NextWindow]_vars

\* Callers ask is_auth_allowed and is_api_allowed.
NextLimiter ==
    \/ \E identifier \in Identifiers, skew \in 0..MaxSkew : IsAuthAllowed(identifier, skew)
    \/ \E identifier \in Identifiers, skew \in 0..MaxSkew : IsApiAllowed(identifier, skew)
    \/ Clock

SpecLimiter == InitLogin /\ [][NextLimiter]_vars

\* Two threads call start_loading, load threads run, and a third thread asks
\* for the status.  A thread that can run does run: a caller finishes
\* start_loading, the import and the warm-up are taken to end, and the
\* finally clause follows.
NextLoader ==
    \/ \E c \in Callers : StartLoading(c)
    \/ \E c \in Callers : StartSet(c)
    \/ \E c \in Callers : StartThread(c)
    \/ \E t \in 1..Len(loader.threads), outcome \in LoadOutcomes : LoadStout(t, outcome)
    \/ \E t \in 1..Len(loader.threads) : Finally(t)
    \/ GetStatus
    \/ GetStatusReturn
    \/ WaitForLoad
    \/ WaitCheck
    \/ \E timed_out \in BOOLEAN : WaitLoop(timed_out)
    \/ WaitReturn

SpecLoader ==
    /\ InitLogin
    /\ [][NextLoader]_vars
    /\ \A c \in Callers : WF_vars(StartSet(c)) /\ WF_vars(StartThread(c))
    /\ \A t \in 1..MaxStarts :
          /\ WF_vars(\E outcome \in LoadOutcomes : LoadStout(t, outcome))
          /\ WF_vars(Finally(t))

---------------------------------------------------------------------------
(* Claims *)

\* a call of process p has returned and no later call of p has started
Returned(p, op) == proc[p].pc = "idle" /\ proc[p].op = op

\* the call of process p started in the month of the stored monthly_reset_date
InPeriod(p) == ~NewMonth(proc[p].cur, proc[p].pre.monthly_reset_date)

\* C1: whatever debits two server processes interleave on one account, the
\* stored basic_credits_used never exceeds basic_credits_limit and the stored
\* premium_credits_used never exceeds premium_credits_limit.
C1_UsedNeverExceedsLimit ==
    /\ store.basic_credits_used <= store.basic_credits_limit
    /\ store.premium_credits_used <= store.premium_credits_limit

\* the basic credits left when the first of the racing debits started
RaceRemaining ==
    LET first == CHOOSE p \in Procs :
                    \A q \in Procs :
                       proc[p].pre.basic_credits_used <= proc[q].pre.basic_credits_used
    IN  proc[first].pre.basic_credits_limit - proc[first].pre.basic_credits_used

RaceAccepted == Cardinality({p \in Procs : proc[p].ret})

\* C2: when more single-unit basic debits race in one month than the account
\* has credits left (N), exactly N of them return True.
C2_ExactlyNAccepted ==
    ((\A p \in Procs : Returned(p, "basic")) /\ Cardinality(Procs) > RaceRemaining)
        => RaceAccepted = RaceRemaining

\* C3: after every committed mutation of the account, including a change to a
\* plan with lower limits, both used counters lie between 0 and their limit.
C3_BalancesWithinLimits ==
    /\ 0 <= store.basic_credits_used
    /\ store.basic_credits_used <= store.basic_credits_limit
    /\ 0 <= store.premium_credits_used
    /\ store.premium_credits_used <= store.premium_credits_limit

\* the slow resolver's answer for the identifier at position item
SlowResultOf(item) ==
    LET j == CHOOSE m \in 1..Len(batch.stout_indices) : batch.stout_indices[m] = item
    IN  batch.stout_results[j]

\* C4: an item whose slow resolution failed ("No name found") is never
\* billed: no premium debit is accepted for it, so it adds nothing to the
\* premium total; only slow-named items are debited.
C4_SlowFailedNeverBilled ==
    \A k \in 1..Len(batch.debits) :
        (batch.debits[k].currency = "premium" /\ batch.debits[k].accepted)
        => SlowResultOf(batch.debits[k].item) # NoNameFound

\* C5: a debit called in a month other than the stored monthly_reset_date
\* evaluates its limit check against the reset counters (zero), so a debit
\* that fits the limit on its own is accepted.
C5_DebitCheckedAfterReset ==
    \A p \in Procs :
        (proc[p].op \in {"basic", "premium"} /\ proc[p].pc \in {"inc_write", "idle"}
            /\ ~InPeriod(p))
        => /\ proc[p].user.basic_credits_used = 0
           /\ proc[p].user.premium_credits_used = 0

\* C6: a check_and_reset_monthly_credits call on an account whose stored
\* monthly_reset_date is in an earlier month leaves both used counters at zero
\* and the date in the current month; a call on an account whose date is
\* already in the current month changes nothing and returns False.
C6_ResetOncePerMonth ==
    \A p \in Procs :
        Returned(p, "check") =>
            IF InPeriod(p)
            THEN ~proc[p].ret /\ store = proc[p].pre
            ELSE /\ proc[p].ret
                 /\ store.basic_credits_used = 0
                 /\ store.premium_credits_used = 0
                 /\ store.monthly_reset_date = proc[p].cur

\* C7: once the reset of the current month has been applied, the reset of a
\* later call in that month leaves the stored used counters unchanged: it
\* wipes no debit accepted since.
C7_ResetIdempotent ==
    [][\A p \in Procs :
          (ResetWrite(p) /\ InPeriod(p))
          => /\ store'.basic_credits_used = store.basic_credits_used
             /\ store'.premium_credits_used = store.premium_credits_used]_vars

\* C8: every accepted debit and every successful update_user_subscription
\* leaves the process without a cached entry for the account.
C8_MutationInvalidatesCache ==
    \A p \in Procs :
        (proc[p].pc = "idle" /\ proc[p].op \in {"basic", "premium", "update"} /\ proc[p].ret)
        => cache[p] = {}

\* C9: update_user_subscription with a plan of SUBSCRIPTION_PLANS replaces
\* both limits by the plan's and leaves the used counters and the
\* monthly_reset_date as they were; with an unknown plan it changes nothing.
C9_UpdateReplacesLimitsOnly ==
    \A p \in Procs :
        Returned(p, "update") =>
            IF proc[p].arg \in PlanNames
            THEN /\ proc[p].ret
                 /\ store.basic_credits_limit =
                        SUBSCRIPTION_PLANS[proc[p].arg].basic_credits_limit
                 /\ store.premium_credits_limit =
                        PremiumUnits(SUBSCRIPTION_PLANS[proc[p].arg].premium_credits_limit)
                 /\ store.basic_credits_used = proc[p].pre.basic_credits_used
                 /\ store.premium_credits_used = proc[p].pre.premium_credits_used
                 /\ store.monthly_reset_date = proc[p].pre.monthly_reset_date
            ELSE ~proc[p].ret /\ store = proc[p].pre

\* a plan change that changed both limits of an account with credits used
C9_Witness ==
    \E p \in Procs :
        /\ Returned(p, "update")
        /\ proc[p].arg \in PlanNames
        /\ proc[p].pre.basic_credits_limit # store.basic_credits_limit
        /\ proc[p].pre.premium_credits_limit # store.premium_credits_limit
        /\ store.basic_credits_used > 0
        /\ store.premium_credits_used > 0

\* C10: run alone on an account in the current month, a debit returns True
\* and adds exactly its amount to the stored counter if and only if used +
\* amount <= limit; otherwise it returns False (and adds nothing).
C10_DebitIffWithinLimit ==
    \A p \in Procs :
        /\ (Returned(p, "basic") /\ InPeriod(p)) =>
              /\ proc[p].ret <=> ~BasicExceeded(proc[p].pre, proc[p].arg)
              /\ store.basic_credits_used =
                    proc[p].pre.basic_credits_used + (IF proc[p].ret THEN proc[p].arg ELSE 0)
        /\ (Returned(p, "premium") /\ InPeriod(p)) =>
              /\ proc[p].ret <=> ~PremiumExceeded(proc[p].pre, proc[p].arg)
              /\ store.premium_credits_used =
                    proc[p].pre.premium_credits_used
                        + (IF proc[p].ret THEN credits_needed(proc[p].arg) ELSE 0)

\* C11: a debit never raises, and it returns False when the account is
\* missing from the store or when a read or write of the store raised during
\* the call.
C11_BillingFailsClosed ==
    \A p \in Procs :
        (Returned(p, "basic") \/ Returned(p, "premium"))
        => ((proc[p].raised \/ proc[p].pre = NoUser) => ~proc[p].ret)

---------------------------------------------------------------------------
(* Claims about the orchestrator *)

\* the request was served for an account the store holds, and has returned
Served == batch.pc = "done" /\ batch.pre # NoUser

IsName(r) == r.kind \in {"pubchem name", "stout name"}

\* the debits of one currency that the batch has called, in call order
DebitsOf(currency) == SelectSeq(batch.debits, LAMBDA d : d.currency = currency)

\* the batch has called a debit of this currency for the item with this outcome
Debited(currency, item, accepted) ==
    \E k \in 1..Len(batch.debits) :
        batch.debits[k] = Debit(currency, item, batch.debits[k].amount, accepted)

\* the items of the slow-pending subset
SlowPending == {batch.stout_indices[m] : m \in 1..Len(batch.stout_indices)}

\* C12: the returned list is as long as the input list, and position i holds
\* the name found for identifier i or a status that identifier i got: a name
\* of the slow batch is written back to the original index of its item.
C12_OrderPreserved ==
    batch.pc = "done" =>
        /\ Len(batch.final_results) = batch.n
        /\ \A i \in 1..batch.n :
              LET r == batch.final_results[i] IN
              /\ IsName(r) => r.item = i
              /\ r = CreditLimitExceeded => Debited("premium", i, FALSE)
              /\ r = ProcessingFailed => i \in SlowPending

\* a batch of three where the first identifier got its fast name and the
\* third, second in the slow batch, got its slow name
C12_Witness ==
    /\ batch.pc = "done"
    /\ batch.n = 3
    /\ batch.final_results[1] = PubchemName(1)
    /\ batch.stout_indices = <<2, 3>>
    /\ batch.final_results[3] = StoutName(3)

\* the positions whose fast debit has been decided
Decided == IF batch.pc = "basic" THEN batch.i - 1 ELSE batch.n

\* C13: no fast debit is called before all fast lookups have returned; fast
\* debits are called only for identifiers whose lookup gave a name, in
\* strictly ascending input index; and the slow-pending list holds exactly
\* the identifiers that missed the fast path or whose fast debit was
\* rejected, in ascending input index.
C13_FastDebitsInOrder ==
    LET fast == DebitsOf("basic") IN
    /\ batch.pc \in {"idle", "fast"} => batch.debits = <<>>
    /\ \A k \in 1..Len(fast) : batch.pubchem_results[fast[k].item] = "name"
    /\ \A k \in 1..(Len(fast) - 1) : fast[k].item < fast[k + 1].item
    /\ \A m \in 1..(Len(batch.stout_indices) - 1) :
          batch.stout_indices[m] < batch.stout_indices[m + 1]
    /\ (batch.pc \in {"basic", "slow", "premium", "fill"} \/ Served) =>
          SlowPending =
              {i \in 1..Decided :
                  \/ batch.pubchem_results[i] # "name"
                  \/ Debited("basic", i, FALSE)}

\* the first identifier was billed its fast name, the second missed the fast
\* path and the fast debit of the third was rejected
C13_Witness ==
    /\ Served
    /\ batch.pubchem_results = <<"name", "None", "name">>
    /\ Debited("basic", 1, TRUE)
    /\ Debited("basic", 3, FALSE)
    /\ batch.stout_indices = <<2, 3>>

\* the month did not change while the batch was served
OneMonth == batch.cur = now

\* the account's document in the month the request arrived: with the counters
\* of a month that is over set to zero
InPeriodAccount ==
    IF NewMonth(batch.cur, batch.pre.monthly_reset_date)
    THEN ResetMonthly(batch.pre, batch.cur)
    ELSE batch.pre

\* the identifiers whose fast lookup gave a name
FastNamedItems == {i \in 1..batch.n : batch.pubchem_results[i] = "name"}

\* C14: with k fast credits left when the batch arrives and no other debit
\* on the account, exactly the first k fast-named identifiers in input order
\* are billed one fast credit and returned with their fast name, and every
\* later fast-named identifier is in the slow-pending list.
C14_FirstKFastBilled ==
    (Served /\ OneMonth) =>
        LET k == InPeriodAccount.basic_credits_limit - InPeriodAccount.basic_credits_used
        IN  \A i \in FastNamedItems :
               IF Cardinality({m \in FastNamedItems : m <= i}) <= k
               THEN /\ Debited("basic", i, TRUE)
                    /\ batch.final_results[i] = PubchemName(i)
                    /\ i \notin SlowPending
               ELSE /\ ~Debited("basic", i, TRUE)
                    /\ i \in SlowPending

\* the positions in the slow batch whose identifier the slow resolver named
SlowNamedPositions ==
    {m \in 1..Len(batch.stout_results) : batch.stout_results[m] # NoNameFound}

\* C15: with premium balance r left when the slow batch is billed, per-item
\* cost c and no other debit on the account, exactly the first floor(r / c)
\* slow-named identifiers in append order are billed and returned with their
\* name, and every later slow-named identifier gets "Credit limit exceeded".
C15_FirstSlowNamedBilled ==
    (Served /\ OneMonth /\ batch.stout_results # <<>>) =>
        LET r == InPeriodAccount.premium_credits_limit - InPeriodAccount.premium_credits_used
            c == credits_needed(batch.compute_time \div Len(batch.stout_indices))
        IN  \A m \in SlowNamedPositions :
               LET idx == batch.stout_indices[m] IN
               IF Cardinality({q \in SlowNamedPositions : q <= m}) <= r \div c
               THEN /\ Debited("premium", idx, TRUE)
                    /\ batch.final_results[idx] = StoutName(idx)
               ELSE /\ ~Debited("premium", idx, TRUE)
                    /\ batch.final_results[idx] = CreditLimitExceeded

\* C16: every premium debit of a batch is of T / n / 10 credits, T the
\* measured time of the slow call and n the size of the slow batch, whichever
\* identifiers the resolver named; and the reported premium total grew by
\* that amount for every accepted debit.
C16_EvenApportionment ==
    LET premium == DebitsOf("premium")
        n == Len(batch.stout_indices)
        accepted == SelectSeq(premium, LAMBDA d : d.accepted)
    IN  /\ \A k \in 1..Len(premium) :
              premium[k].amount * n * SecondsPerCredit * 10 = batch.compute_time * 1000
        /\ batch.premium_credits_used * n * SecondsPerCredit * 10
              = Len(accepted) * batch.compute_time * 1000

\* three identifiers in one slow call of 6 s, one of them not named: the
\* debit of 0.2 credits was called for each and accepted for one
C16_Witness ==
    /\ Served
    /\ Len(batch.stout_indices) = 3
    /\ batch.compute_time = 60
    /\ NoNameFound \in {batch.stout_results[m] : m \in 1..3}
    /\ Len(DebitsOf("premium")) = 3
    /\ batch.premium_credits_used = 200

\* C17: a debit is called at most once per currency for an identifier, and a
\* rejected debit leaves the earlier debits of the batch, the totals and the
\* results of the other identifiers as they were; it changes the stored
\* document only by the reset of a new month.
C17_RejectionIsLocal ==
    [][(Len(batch'.debits) = Len(batch.debits) + 1) =>
          LET d == batch'.debits[Len(batch'.debits)] IN
          /\ \A k \in 1..Len(batch.debits) :
                /\ batch'.debits[k] = batch.debits[k]
                /\ ~(batch.debits[k].currency = d.currency /\ batch.debits[k].item = d.item)
          /\ ~d.accepted =>
                /\ store' # store => NewMonth(now, store.monthly_reset_date)
                /\ batch'.basic_credits_used = batch.basic_credits_used
                /\ batch'.premium_credits_used = batch.premium_credits_used
                /\ \A m \in 1..batch.n :
                      m # d.item => batch'.final_results[m] = batch.final_results[m]
      ]_vars

\* a premium debit was rejected after one was accepted, with an identifier
\* of the slow batch still to come; the accepted one kept its name and debit
C17_Witness ==
    /\ batch.pc = "premium"
    /\ batch.j = 3
    /\ Len(batch.stout_indices) = 3
    /\ Debited("premium", batch.stout_indices[1], TRUE)
    /\ Debited("premium", batch.stout_indices[2], FALSE)
    /\ batch.final_results[batch.stout_indices[1]] = StoutName(batch.stout_indices[1])
    /\ batch.final_results[batch.stout_indices[2]] = CreditLimitExceeded
    /\ batch.final_results[batch.stout_indices[3]] = None
    /\ store.premium_credits_used = batch.pre.premium_credits_used + 200

\* C18: when the call returns, every position holds a name, "Credit limit
\* exceeded", "No name found" or "Processing failed", none is left unset; a
\* fast name is returned only with an accepted fast debit for the identifier,
\* a slow name only with an accepted premium debit, and "Credit limit
\* exceeded" only after its premium debit was rejected.
C18_TerminalStates ==
    Served =>
        \A i \in 1..batch.n :
            LET r == batch.final_results[i] IN
            /\ r.kind \in {"pubchem name", "stout name", "Credit limit exceeded",
                           "No name found", "Processing failed"}
            /\ r.kind = "pubchem name" => Debited("basic", i, TRUE)
            /\ r.kind = "stout name" => Debited("premium", i, TRUE)
            /\ r = CreditLimitExceeded =>
                  (Debited("premium", i, FALSE) /\ ~Debited("premium", i, TRUE))

\* a batch that returned a fast name, a slow name and "Credit limit exceeded"
C18_Witness ==
    /\ Served
    /\ batch.n = 3
    /\ \E i \in 1..3 : batch.final_results[i].kind = "pubchem name"
    /\ \E i \in 1..3 : batch.final_results[i].kind = "stout name"
    /\ \E i \in 1..3 : batch.final_results[i] = CreditLimitExceeded

\* C19: true_batch_stout_translate is called at most once per batch: not
\* while fast debits are undecided, once with the slow-pending list when that
\* list is not empty, never when it is empty; and premium debits are called
\* only after it returned.
C19_SlowResolverOnce ==
    /\ Len(batch.slow_calls) <= 1
    /\ batch.pc \in {"idle", "fast", "basic"} => batch.slow_calls = <<>>
    /\ batch.pc = "slow" =>
          /\ batch.i > batch.n
          /\ \A i \in FastNamedItems : \E a \in BOOLEAN : Debited("basic", i, a)
          /\ DebitsOf("premium") = <<>>
    /\ batch.pc \in {"slow", "premium", "fill", "done"} =>
          batch.slow_calls =
              IF batch.stout_indices = <<>> THEN <<>> ELSE <<batch.stout_indices>>
    /\ DebitsOf("premium") # <<>> =>
          (batch.pc \in {"premium", "fill", "done"} /\ batch.stout_results # <<>>)

\* the slow resolver was called once, with two identifiers, after a fast
\* debit was accepted and one rejected; both premium debits followed
C19_Witness ==
    /\ Served
    /\ Len(batch.slow_calls) = 1
    /\ Len(batch.slow_calls[1]) = 2
    /\ Len(DebitsOf("basic")) = 2
    /\ Len(DebitsOf("premium")) = 2

RECURSIVE SumAccepted(_)
\* the sum of the amounts of the accepted debits of a sequence of debits
SumAccepted(ds) ==
    IF ds = <<>> THEN 0
    ELSE (IF Head(ds).accepted THEN Head(ds).amount ELSE 0) + SumAccepted(Tail(ds))

\* the monthly reset was applied while the batch was served
ResetInBatch == batch.debits # <<>> /\ NewMonth(batch.cur, batch.pre.monthly_reset_date)

\* C20 (amended): the returned basic total is the number of accepted fast
\* debits of the batch and the returned premium total is the sum of the
\* amounts of its accepted premium debits; with nothing else acting on the
\* account and no change of month while the batch is served, the stored
\* counters grew by exactly these totals, counted from zero when the first
\* debit of the batch applied the monthly reset.
C20_TotalsMatchLedger ==
    batch.pc = "done" =>
        /\ batch.basic_credits_used = SumAccepted(DebitsOf("basic"))
        /\ batch.premium_credits_used = SumAccepted(DebitsOf("premium"))
        /\ OneMonth =>
              /\ store.basic_credits_used =
                    (IF ResetInBatch THEN 0 ELSE batch.pre.basic_credits_used)
                        + batch.basic_credits_used
              /\ store.premium_credits_used =
                    (IF ResetInBatch THEN 0 ELSE batch.pre.premium_credits_used)
                        + batch.premium_credits_used

\* a batch with an accepted fast debit and two accepted premium debits
C20_Witness ==
    /\ Served
    /\ OneMonth
    /\ batch.basic_credits_used = 1
    /\ batch.premium_credits_used = 200
    /\ Len(SelectSeq(batch.debits, LAMBDA d : d.accepted)) = 3
    /\ store.premium_credits_used = batch.pre.premium_credits_used + 200

\* C20 as stated: the stored counters after the batch are the stored
\* counters before it plus the returned totals.
C20_AsStated ==
    batch.pc = "done" =>
        /\ store.basic_credits_used = batch.pre.basic_credits_used + batch.basic_credits_used
        /\ store.premium_credits_used =
              batch.pre.premium_credits_used + batch.premium_credits_used

\* a batch has arrived for an account that get_user_by_id could not resolve
Unresolved == batch.pc # "idle" /\ batch.pre = NoUser

\* C21: when get_user_by_id returns None for the account, the call is over at
\* once: no fast lookup was launched, true_batch_stout_translate was not
\* called, no debit was attempted, every position of the output carries
\* "User not found", and the two totals and the compute time are zero.
C21_MissingAccountStopsBatch ==
    Unresolved =>
        /\ batch.pc = "done"
        /\ batch.pubchem_results = <<>>
        /\ batch.stout_indices = <<>>
        /\ batch.slow_calls = <<>>
        /\ batch.debits = <<>>
        /\ batch.final_results = [k \in 1..batch.n |-> UserNotFound]
        /\ batch.basic_credits_used = 0
        /\ batch.premium_credits_used = 0
        /\ batch.compute_time = 0
        /\ store = NoUser

\* a batch of MaxItems identifiers was answered for a missing account
C21_Witness ==
    /\ Unresolved
    /\ batch.pc = "done"
    /\ batch.n = MaxItems
    /\ \A k \in 1..batch.n : batch.final_results[k] = UserNotFound

\* the coroutine of item k is over
LookedUp(k) == k \in 1..Len(batch.lookups) /\ batch.lookups[k].pc = "done"

\* the basic loop has decided item k
FastDecided(k) == batch.pc \in {"basic", "slow", "fill"} /\ k <= Decided

\* C22: pubchem_name_from_smiles never raises: every coroutine ends with a
\* name or with None, and with None whenever neither lookup gave a name
\* (the local lookup raised or found nothing, and the remote one timed out,
\* raised, could not be imported or answered nothing); an item whose result
\* is not a name is put on the slow-pending list, the batch goes on, and an
\* item that did get a name has its basic debit called.
C22_FastResolverNeverRaises ==
    \A k \in 1..batch.n :
        /\ LookedUp(k) =>
               /\ batch.lookups[k].result \in {"name", "None"}
               /\ batch.lookups[k].result = "name" <=>
                      \/ batch.lookups[k].local = "name"
                      \/ batch.lookups[k].remote = "name"
        /\ FastDecided(k) =>
               /\ batch.pubchem_results[k] = batch.lookups[k].result
               /\ batch.pubchem_results[k] # "name" =>
                      /\ k \in SlowPending
                      /\ ~Debited("basic", k, TRUE) /\ ~Debited("basic", k, FALSE)
               /\ batch.pubchem_results[k] = "name" =>
                      \/ Debited("basic", k, TRUE) /\ batch.final_results[k] = PubchemName(k)
                      \/ Debited("basic", k, FALSE) /\ k \in SlowPending

\* the basic loop is over for a batch in which one remote lookup timed out,
\* another failed (transport or import), and a third item was named and billed
C22_Witness ==
    /\ batch.pc = "slow"
    /\ \E k \in 1..batch.n : batch.lookups[k].remote = "timeout" /\ k \in SlowPending
    /\ \E k \in 1..batch.n :
          /\ batch.lookups[k].remote \in {"error", "import error"}
          /\ batch.lookups[k].local = "raises"
          /\ k \in SlowPending
    /\ \E k \in 1..batch.n :
          /\ batch.lookups[k].remote = "name"
          /\ batch.final_results[k] = PubchemName(k)

\* C23: every coroutine calls the local lookup once, before anything else;
\* it issues the remote lookup only after the local lookup gave no name,
\* and at most once, whatever the remote lookup's outcome.
C23_LocalFirstOneRemote ==
    \A k \in 1..Len(batch.lookups) :
        LET l == batch.lookups[k] IN
            /\ l.local_calls <= 1
            /\ l.remote_calls <= 1
            /\ l.remote_calls = 1 =>
                   l.local_calls = 1 /\ l.local \in {"none", "raises"}
            /\ l.local = "name" =>
                   l.remote_calls = 0 /\ l.remote = "unset" /\ l.result = "name"
            /\ l.pc = "done" =>
                   l.local_calls = 1 /\ (l.local = "name" \/ l.remote_calls = 1)
            /\ l.remote # "unset" => l.remote_calls = 1 /\ l.pc = "done"

\* the gather has returned for a batch with a local hit, and with a remote
\* lookup that timed out after an empty local lookup and was not repeated
C23_Witness ==
    /\ batch.pc = "basic"
    /\ \E k \in 1..batch.n :
          batch.lookups[k].local = "name" /\ batch.lookups[k].remote_calls = 0
    /\ \E k \in 1..batch.n :
          /\ batch.lookups[k].local = "none"
          /\ batch.lookups[k].remote = "timeout"
          /\ batch.lookups[k].remote_calls = 1

\* the slots of the list that thread w has resolved so far
Resolved(w) == 1..Len(worker[w].results)

\* C24: true_batch_stout_translate fills one slot per identifier, in the
\* order of its input, and returns a list as long as its input; a slot whose
\* inference gave a name holds that name, a slot whose inference failed
\* holds "No name found", whatever happened to the slots around it, and a
\* slot served from the cache holds what the cache held for its identifier.
C24_SlotwiseFailure ==
    \A w \in Workers :
        /\ Len(worker[w].how) = Len(worker[w].results)
        /\ worker[w].pc = "idle" => Len(worker[w].results) = Len(worker[w].smiles_list)
        /\ worker[w].pc # "idle" => Len(worker[w].results) = worker[w].k - 1
        /\ \A m \in Resolved(w) :
              LET smiles == worker[w].smiles_list[m] IN
                  /\ worker[w].how[m] = "name" =>
                         worker[w].results[m] = StoutName(smiles)
                  /\ worker[w].how[m] \in {"empty", "raises"} =>
                         worker[w].results[m] = NoNameFound
                  /\ worker[w].how[m] = "hit" =>
                         worker[w].results[m] \in {StoutName(smiles), NoNameFound}

\* a list was returned in which the inference raised for one identifier and
\* the identifiers before and after it got their names
C24_Witness ==
    \E w \in Workers :
        /\ worker[w].pc = "idle"
        /\ Len(worker[w].smiles_list) >= 3
        /\ \E m \in 2..(Len(worker[w].results) - 1) :
              /\ worker[w].how[m] = "raises"
              /\ worker[w].results[m] = NoNameFound
              /\ worker[w].results[m - 1] = StoutName(worker[w].smiles_list[m - 1])
              /\ worker[w].results[m + 1] = StoutName(worker[w].smiles_list[m + 1])

\* the slots before slot m that hold the identifier of slot m
EarlierSame(w, m) ==
    {j \in 1..(m - 1) : worker[w].smiles_list[j] = worker[w].smiles_list[m]}

\* thread w is about to look up an identifier that is in the cache
AboutToHit(w) ==
    /\ worker[w].pc = "translate"
    /\ worker[w].k <= Len(worker[w].smiles_list)
    /\ worker[w].smiles_list[worker[w].k] \in Keys(stout_cache)

\* C25: while the entry of an identifier is still cached, resolving the
\* identifier again is a cache hit: the engine is not invoked, the result
\* is the cached one, which is the result of the resolution before it, and
\* the cached value stays as it was.
C25_HitWhileCached ==
    [][\A w \in Workers :
          (AboutToHit(w) /\ worker'[w] # worker[w]) =>
              LET m == worker[w].k
                  smiles == worker[w].smiles_list[m]
              IN
                  /\ worker'[w].pc = "translate"
                  /\ worker'[w].how = Append(worker[w].how, "hit")
                  /\ worker'[w].results =
                         Append(worker[w].results, EntryOf(stout_cache, smiles).value)
                  /\ EarlierSame(w, m) # {} /\
                         LET j == CHOOSE j \in EarlierSame(w, m) :
                                     \A i \in EarlierSame(w, m) : i <= j
                         IN worker'[w].results[m] = worker[w].results[j]
                  /\ smiles \in Keys(stout_cache')
                  /\ EntryOf(stout_cache', smiles) = EntryOf(stout_cache, smiles)]_vars

\* an identifier was resolved by the engine and, after another identifier
\* had been resolved, served from the cache with the same result
C25_Witness ==
    \E w \in Workers :
        \E j, m \in Resolved(w) :
            /\ j + 1 < m
            /\ worker[w].smiles_list[j] = worker[w].smiles_list[m]
            /\ worker[w].smiles_list[j + 1] # worker[w].smiles_list[j]
            /\ worker[w].how[j] = "name"
            /\ worker[w].how[m] = "hit"
            /\ worker[w].results[m] = worker[w].results[j]

\* C25, as stated: two resolutions of the same identifier give the same
\* result, whether or not the entry stayed in the cache between them.
C25_AsStated ==
    \A w \in Workers :
        \A j, m \in Resolved(w) :
            worker[w].smiles_list[j] = worker[w].smiles_list[m] =>
                worker[w].results[j] = worker[w].results[m]

\* the call of the engine made by thread w returns in this step
Inferred(w) == worker[w].pc = "infer" /\ worker'[w].pc = "translate"

\* no key has two entries
OneEntryPerKey(c) == Cardinality(Keys(c)) = Len(c)

\* C26: when the two threads of the pool resolve the same uncached
\* identifier side by side, the cache holds at most one entry for it, the
\* value of an entry never changes while it is cached, and the result that
\* a thread returns for the identifier is the value that is stored.
C26_WriteOnce ==
    [][/\ OneEntryPerKey(stout_cache')
       /\ \A smiles \in Keys(stout_cache) \cap Keys(stout_cache') :
             EntryOf(stout_cache', smiles).value = EntryOf(stout_cache, smiles).value
       /\ \A w \in Workers :
             Inferred(w) =>
                 LET smiles == worker[w].smiles_list[worker[w].k] IN
                     /\ smiles \in Keys(stout_cache')
                     /\ EntryOf(stout_cache', smiles).value
                            = worker'[w].results[worker[w].k]]_vars

\* thread w is served from the cache in this step
Hit(w) ==
    /\ worker[w].pc = "translate"
    /\ Len(worker'[w].how) = Len(worker[w].how) + 1
    /\ worker'[w].how[Len(worker'[w].how)] = "hit"

\* C27: the result cache never holds more than CacheSize entries; an entry
\* leaves the cache only when a new identifier is stored in a full cache,
\* and then it is the least recently used one and the only one to leave;
\* the entry that was stored or served last is the most recently used, and
\* the other entries keep their order; the passing of time removes nothing.
C27_BoundedLRU ==
    [][LET removed == Keys(stout_cache) \ Keys(stout_cache')
           added == Keys(stout_cache') \ Keys(stout_cache)
           last == stout_cache'[Len(stout_cache')].key
       IN
           /\ Len(stout_cache') <= CacheSize
           /\ OneEntryPerKey(stout_cache')
           /\ Cardinality(added) <= 1
           /\ removed # {} =>
                  /\ Len(stout_cache) = CacheSize
                  /\ removed = {stout_cache[1].key}
                  /\ added # {}
           /\ added # {} => last \in added
           /\ \A w \in Workers :
                  Hit(w) => last = worker[w].smiles_list[worker[w].k]
           /\ stout_cache' # stout_cache =>
                  Without(stout_cache', last)
                      = SelectSeq(stout_cache,
                                  LAMBDA e : e.key # last /\ e.key \notin removed)
           /\ now' # now => stout_cache' = stout_cache]_vars

\* the cache is full, an identifier was served from it, and an identifier
\* that the engine resolved, and that was stored, is in the cache no more
C27_Witness ==
    /\ Len(stout_cache) = CacheSize
    /\ \E w \in Workers :
          /\ worker[w].pc = "idle"
          /\ \E m \in Resolved(w) :
                /\ worker[w].how[m] = "name"
                /\ worker[w].smiles_list[m] \notin Keys(stout_cache)
          /\ \E m \in Resolved(w) : worker[w].how[m] = "hit"

\* the plan of a document and its two limits
Tier(st) == <<st.subscription_plan, st.basic_credits_limit, st.premium_credits_limit>>

\* process p runs update_user_subscription in this step
TierUpdate(p) ==
    /\ proc[p].pc = "idle"
    /\ proc'[p].op = "update"
    /\ proc'[p].calls = proc[p].calls - 1

\* C28: the plan and the two limits of an account change only in a step of
\* update_user_subscription: the debits, check_and_reset_monthly_credits,
\* reset_user_credits and get_user_credit_usage leave them as they are; and
\* the document that create_user writes is on the free plan with the free
\* plan's limits and both used counters at zero.
C28_LimitsChangeOnlyByTierUpdate ==
    [][/\ (store # NoUser /\ Tier(store') # Tier(store)) =>
              \E p \in Procs : TierUpdate(p)
       /\ (store = NoUser /\ store' # NoUser) =>
              /\ store'.subscription_plan = "free"
              /\ store'.basic_credits_limit = SUBSCRIPTION_PLANS["free"].basic_credits_limit
              /\ store'.premium_credits_limit =
                     PremiumUnits(SUBSCRIPTION_PLANS["free"].premium_credits_limit)
              /\ store'.basic_credits_used = 0
              /\ store'.premium_credits_used = 0
       /\ store' = NoUser => store = NoUser]_vars

\* create_user has just written the document of an account that did not
\* exist, in the month after the first one
C28_Witness ==
    /\ Returned(Solo, "create")
    /\ proc[Solo].pre = NoUser
    /\ now = NextMonth(StartDate)
    /\ store = NewAccount(now)
    /\ Tier(store) = Tier(Account("free", 0, 0, StartDate))

\* the debit of process p returns False in this step, after its limit check
Rejected(p) ==
    /\ proc[p].op \in {"basic", "premium"}
    /\ proc[p].pc = "read_user"
    /\ proc'[p].pc = "idle"

\* C29: when a debit returns False for an account whose stored
\* monthly_reset_date was in the current month when the call began, the
\* stored document is what it was when the call began, and the cache entry
\* of the process is kept (calls of different processes do not overlap).
C29_RejectedDebitChangesNothing ==
    [][\A p \in Procs :
          (Rejected(p) /\ proc[p].pre # NoUser /\ InPeriod(p)) =>
              /\ store' = proc[p].pre
              /\ cache'[p] # {}
              /\ cache[p] # {} => cache'[p] = cache[p]]_vars

\* C30: get_user_credit_usage reports the account as it is stored after the
\* monthly check: the reported monthly_reset_date is in the month of the
\* call, and when the account was still in an earlier month as the call
\* began, both reported used counters are zero and check_credit_limits lets
\* the request in.
C30_UsageAfterResetIsFresh ==
    \A p \in Procs :
        (Returned(p, "usage") /\ proc[p].pre # NoUser) =>
            /\ proc[p].user.monthly_reset_date = proc[p].cur
            /\ ~InPeriod(p) =>
                   /\ proc[p].user.basic_credits_used = 0
                   /\ proc[p].user.premium_credits_used = 0
                   /\ proc[p].ret

\* the accepted debits that the batch has called for an item
AcceptedFor(item) ==
    {k \in 1..Len(batch.debits) : batch.debits[k].item = item /\ batch.debits[k].accepted}

\* C31: within one request an item has at most one accepted debit: an item
\* with an accepted fast debit is not put on the slow-pending list and no
\* premium debit is called for it, and an item with an accepted premium
\* debit has no accepted fast debit.
C31_OneAcceptedDebitPerItem ==
    \A item \in 1..batch.n :
        /\ Cardinality(AcceptedFor(item)) <= 1
        /\ Debited("basic", item, TRUE) =>
               /\ item \notin SlowPending
               /\ ~Debited("premium", item, TRUE)
               /\ ~Debited("premium", item, FALSE)
        /\ Debited("premium", item, TRUE) =>
               /\ item \in SlowPending
               /\ ~Debited("basic", item, TRUE)

\* the call has returned for a batch in which one item was billed a fast
\* credit, and another, whose fast debit was rejected, a premium credit
C31_Witness ==
    /\ Served
    /\ \E item \in 1..batch.n :
          Debited("basic", item, TRUE) /\ batch.final_results[item] = PubchemName(item)
    /\ \E item \in 1..batch.n :
          /\ Debited("basic", item, FALSE)
          /\ Debited("premium", item, TRUE)
          /\ batch.final_results[item] = StoutName(item)

\* the await of the slow resolver raised for this batch
SlowFailed ==
    /\ batch.pc \in {"fill", "done"}
    /\ batch.slow_calls # <<>>
    /\ batch.stout_results = <<>>

\* C32: when the call of the slow resolver raises, no premium debit is
\* called for the batch and its premium total and compute time stay zero,
\* every slow-pending item gets "Processing failed", and every item billed
\* on the fast path keeps its name, with the basic total counting exactly
\* those items.
C32_SlowFailureKeepsFastResults ==
    SlowFailed =>
        /\ DebitsOf("premium") = <<>>
        /\ batch.premium_credits_used = 0
        /\ batch.compute_time = 0
        /\ store.premium_credits_used \in {batch.pre.premium_credits_used, 0}
        /\ \A item \in 1..batch.n :
              /\ item \in SlowPending <=> batch.final_results[item] = ProcessingFailed
              /\ item \notin SlowPending <=>
                     /\ Debited("basic", item, TRUE)
                     /\ batch.final_results[item] = PubchemName(item)
        /\ batch.basic_credits_used = Cardinality({item \in 1..batch.n :
                                                      Debited("basic", item, TRUE)})

\* the call has returned after the slow resolver raised, for a batch with
\* an item billed on the fast path and two slow-pending items, one of them
\* after a rejected fast debit
C32_Witness ==
    /\ SlowFailed
    /\ batch.pc = "done"
    /\ batch.basic_credits_used = 1
    /\ Len(batch.stout_indices) = 2
    /\ \E item \in SlowPending : Debited("basic", item, FALSE)
    /\ \E item \in 1..batch.n : batch.final_results[item] = PubchemName(item)

\* C33: check_credit_limits answers 429 if and only if the account, as it
\* is stored once the monthly check of the call is over, has no credit left
\* in either currency; an account that cannot be read is answered 429.
C33_RejectedIffExhausted ==
    \A p \in Procs :
        Returned(p, "usage") =>
            (proc[p].ret <=> (store # NoUser /\ Admitted(store)))

\* a call of get_molecule_names_with_credits is under way
Pending == batch.pc \notin {"idle", "done"}

\* the call has returned and every position of its output is terminal
Terminal ==
    /\ batch.pc = "done"
    /\ Len(batch.final_results) = batch.n
    /\ \A i \in 1..batch.n :
          batch.final_results[i].kind \in
              {"pubchem name", "stout name", "Credit limit exceeded",
               "No name found", "Processing failed", "User not found"}

\* the coroutine of item k awaits its remote lookup
AwaitsRemote(k) == k \in 1..Len(batch.lookups) /\ batch.lookups[k].pc = "remote"

\* C34: when every fast lookup returns or times out and the slow call
\* returns, a call of get_molecule_names_with_credits that is under way
\* eventually returns with every position of its output in a terminal state,
\* and a remote lookup that is awaited eventually ends: the timer of
\* wait_for ends it even when the remote service never answers.
C34_EveryBatchReturns ==
    /\ Pending ~> Terminal
    /\ (\E k \in 1..batch.n : AwaitsRemote(k)) ~> (\A k \in 1..batch.n : LookedUp(k))

C34_Witness ==
    /\ Terminal
    /\ batch.n >= 2
    /\ \E k \in 1..batch.n : batch.lookups[k].remote = "timeout"
    /\ \E i \in 1..batch.n : batch.final_results[i].kind = "stout name"
    /\ \E i \in 1..batch.n : batch.final_results[i].kind = "pubchem name"

\* the last login request was answered
LoginAnswered == login.pc = "idle" /\ login.answers # <<>>

LastAnswer == login.answers[Len(login.answers)]

\* C35: POST /auth/login with an unknown address or a wrong password is
\* answered 401 "Incorrect email or password"; the answer 500 "Login failed"
\* is given only when authentication or session creation raised.
C35_BadCredentialsAnswered401 ==
    LoginAnswered =>
        /\ (/\ login.db = "returns"
            /\ (login.email = "unknown" \/ login.password = "wrong"))
              => LastAnswer = Unauthorized
        /\ LastAnswer = LoginFailed =>
              (login.db = "raises" \/ login.session = "raises")

\* the calls of one kind for an identifier that returned True with a time
\* stamp in the window of window_seconds that starts at from
AllowedIn(kind, identifier, from) ==
    {k \in 1..Len(limiter.calls) :
        /\ limiter.calls[k] = Call(kind, identifier, limiter.calls[k].at, TRUE)
        /\ from <= limiter.calls[k].at
        /\ limiter.calls[k].at < from + Window}

\* the calls of the kind for the identifier before call k that returned True
\* less than window_seconds before it
CountingAgainst(k) ==
    {j \in 1..(k - 1) :
        /\ limiter.calls[j] = Call(limiter.calls[k].kind, limiter.calls[k].identifier,
                                  limiter.calls[j].at, TRUE)
        /\ limiter.calls[k].at - limiter.calls[j].at < Window}

\* C36: with max_requests and window_seconds fixed, at most max_requests
\* calls of is_allowed for an identifier return True within any window of
\* window_seconds; a call that returns False is not recorded, so the list of
\* the identifier holds time stamps of calls that returned True only; and a
\* time stamp older than the window does not count: a call with fewer than
\* max_requests allowed calls in the window before it returns True.
C36_AtMostMaxPerWindow ==
    /\ \A identifier \in Identifiers, from \in 0..MaxClock :
          Cardinality(AllowedIn("api", identifier, from)) <= ApiLimit
    /\ \A identifier \in Identifiers :
          \A n \in 1..Len(limiter.requests[identifier]) :
              \E k \in 1..Len(limiter.calls) :
                  limiter.calls[k] =
                      Call("api", identifier, limiter.requests[identifier][n], TRUE)
    /\ \A k \in 1..Len(limiter.calls) :
          Cardinality(CountingAgainst(k)) < ApiLimit => limiter.calls[k].allowed

\* the limit of the kind of a call
LimitOf(kind) == IF kind = "auth" THEN AuthLimit ELSE ApiLimit

\* C37: the two limits are tracked apart: a call of is_auth_allowed returns
\* True whenever fewer than the authentication limit of is_auth_allowed
\* calls for the identifier returned True in the window before it, whatever
\* calls of is_api_allowed were made, and the same with the kinds exchanged.
C37_KindsTrackedApart ==
    \A k \in 1..Len(limiter.calls) :
        Cardinality(CountingAgainst(k)) < LimitOf(limiter.calls[k].kind)
            => limiter.calls[k].allowed

\* the load threads that have not ended
LiveThreads == {t \in 1..Len(loader.threads) : loader.threads[t].pc # "ended"}

\* a load thread has set _loaded
Succeeded == \E t \in 1..Len(loader.threads) : loader.threads[t].how = "succeeds"

\* C38: start_loading starts at most one load thread at a time, also with
\* two concurrent callers: never two load threads that have not ended, and a
\* thread after the first is started only after the load before it has
\* ended in failure, so a call during a load or after a success starts
\* nothing.
C38_OneLoadThread ==
    /\ Cardinality(LiveThreads) <= 1
    /\ \A t \in 2..Len(loader.threads) :
          loader.threads[t - 1] = [pc |-> "ended", how |-> "raises"]

\* get_status has returned at least once and the observer is at rest
Reported == loader.observer.pc = "idle" /\ loader.observer.reports # <<>>

LastReport == loader.observer.reports[Len(loader.observer.reports)]

\* the parts of C39, one by one
C39_LoadedIffSucceeded ==
    /\ loader._loaded <=> Succeeded
    /\ \A n \in 1..Len(loader.observer.reports) :
          loader.observer.reports[n].status = "loaded" => Succeeded
    /\ Reported => (LastReport.status = "loaded" <=> loader.observer.read_loaded)

C39_StaysLoaded ==
    \A n \in 1..Len(loader.observer.reports), m \in 1..Len(loader.observer.reports) :
        (n < m /\ loader.observer.reports[n].status = "loaded")
            => loader.observer.reports[m].status = "loaded"

C39_FailureReported ==
    (Reported /\ loader.observer.after_failure) =>
        LastReport = [status |-> "not_started", loaded |-> FALSE, loading |-> FALSE,
                      error |-> "error"]

C39_WaitReturns ==
    loader.observer.pc = "waited" =>
        /\ loader.observer.ret => loader._loaded
        /\ (~loader.observer.in_progress /\ ~loader.observer.waited /\ ~loader._loaded)
              => ~loader.observer.ret

\* once a load has started it ends with _loading = False
C39_LoadEnds ==
    \A t \in 1..MaxStarts :
        (t \in LiveThreads) ~> (t \notin LiveThreads /\ ~loader._loading)

\* C39: the status of the loader is consistent and monotonic: get_status
\* reports "loaded" if and only if a load succeeded, and never anything else
\* afterwards; after a failed load it reports loaded = False, loading =
\* False and the error; wait_for_load returns True only when the loader is
\* loaded, and False without waiting when no load is in progress.
C39_StatusConsistent ==
    /\ C39_LoadedIffSucceeded
    /\ C39_StaysLoaded
    /\ C39_FailureReported
    /\ C39_WaitReturns

====
